---- MODULE Spec2Model ----
(***************************************************************************)
(* provider-stackrox: the Cluster and InitBundle controllers.              *)
(*                                                                         *)
(* One reconciliation pass of the managed reconciler is                    *)
(*   Connect -> Observe -> (Create | Update | Delete | nothing)            *)
(*           -> Disconnect                                                 *)
(* against the Central service.  The module models                         *)
(*   - the mapper functions (generateObservation, generateCluster,         *)
(*     isUpToDate) of both kinds,                                          *)
(*   - the ExternalClient handlers (Observe, Create, Update, Delete),      *)
(*   - the connector (Connect, Disconnect, close) with its shared          *)
(*     `external` field,                                                   *)
(*   - the remote collection and the calls issued against it.              *)
(*                                                                         *)
(* Spec      one record of one kind, passes run one after the other.       *)
(* SpecConn  two passes of one kind running concurrently through the one   *)
(*           connector the controller owns.                                *)
(***************************************************************************)
EXTENDS Integers, Sequences, FiniteSets, TLC

\* ------------------------------------------------------------------ bounds
MaxEvents == 3      \* passes of the driver plus out-of-band changes of the remote
MaxRemote == 2      \* entries the remote collection may hold
MaxConns  == 3      \* connections opened in SpecConn

\* ----------------------------------------------------------------- errors
\* An error is the chain of messages errors.Wrap builds, outermost first;
\* the nil error is the empty chain.
NoErr == << >>

Wrap(err, msg) == IF err = NoErr THEN NoErr ELSE <<msg>> \o err

NewErr(msg) == <<msg>>

errNotCluster == "managed resource is not a Cluster custom resource"

errNotInitBundle == "managed resource is not a InitBundle custom resource"

\* The error of the type assertion each handler of kind k begins with.
errNotThisKind(k) == IF k = "Cluster" THEN errNotCluster ELSE errNotInitBundle

errTrackPCUsage == "cannot track ProviderConfig usage"

errGetPC == "cannot get ProviderConfig"

errGetCreds == "cannot get credentials"

ErrNewClient == "cannot create central client"

ErrCloseClient == "cannot close central client"

\* the per-kind message constants of the two controller packages
errGetFailed(k) == IF k = "Cluster" THEN "cannot get cluster" ELSE "cannot get init bundle"

errObserveFailed(k) == IF k = "Cluster" THEN "cannot observe cluster" ELSE "cannot observe init bundle"

errCreateFailed(k) == IF k = "Cluster" THEN "cannot create cluster" ELSE "cannot create init bundle"

errUpdateFailed(k) == IF k = "Cluster" THEN "cannot update cluster" ELSE "cannot update init bundle"

errDeleteFailed(k) == IF k = "Cluster" THEN "cannot delete cluster" ELSE "cannot delete init bundle"

\* errors of the transport and of the remote service
ErrRPC == "rpc error: unavailable"

ErrRPCNotFound == "rpc error: not found"

ErrConnClosing == "grpc: the client connection is closing"

\* ------------------------------------------------------------- enum tables
\* The name <-> code tables of the enumerated fields.  A lookup of a key the
\* table does not hold yields Go's zero value: "" for a name, 0 for a code.
CollectionMethod_name ==
    [c \in {0, 1, 2, 3} |->
        CASE c = 0 -> "UNSET_COLLECTION"
          [] c = 1 -> "NO_COLLECTION"
          [] c = 2 -> "KERNEL_MODULE"
          [] c = 3 -> "EBPF"]

ClusterType_name ==
    [c \in {0, 1, 2, 5} |->
        CASE c = 0 -> "GENERIC_CLUSTER"
          [] c = 1 -> "KUBERNETES_CLUSTER"
          [] c = 2 -> "OPENSHIFT_CLUSTER"
          [] c = 5 -> "OPENSHIFT4_CLUSTER"]

ManagerType_name ==
    [c \in {0, 1, 2, 3} |->
        CASE c = 0 -> "MANAGER_TYPE_UNKNOWN"
          [] c = 1 -> "MANAGER_TYPE_MANUAL"
          [] c = 2 -> "MANAGER_TYPE_HELM_CHART"
          [] c = 3 -> "MANAGER_TYPE_KUBERNETES_OPERATOR"]

\* A lookup that names an unknown code as the table names code 0.
NameOfOrZero(table, code) == IF code \in DOMAIN table THEN table[code] ELSE table[0]

NameOf(table, code) == IF code \in DOMAIN table THEN table[code] ELSE ""

\* A lookup that knows no name: every name maps to the zero value.
ValueOfNothing(table, name) == 0

ValueOf(table, name) ==
    IF \E c \in DOMAIN table : table[c] = name
    THEN CHOOSE c \in DOMAIN table : table[c] = name
    ELSE 0

\* ------------------------------------------------------------------ values
\* A Go map is nil, or holds a set of key/value pairs (possibly none).
NilLabels == [isNil |-> TRUE, kv |-> {}]

EmptyLabels == [isNil |-> FALSE, kv |-> {}]

SomeLabels == [isNil |-> FALSE, kv |-> {<<"env", "prod">>}]

\* *storage.TolerationsConfig: nil, or a message with its Disabled flag
NilTolerations == [isNil |-> TRUE, Disabled |-> FALSE]

TolerationsConfig(disabled) == [isNil |-> FALSE, Disabled |-> disabled]

\* *storage.SensorDeploymentIdentification
NilSensor ==
    [isNil |-> TRUE, AppNamespace |-> "", AppNamespaceId |-> "",
     AppServiceaccountId |-> "", DefaultNamespaceId |-> "",
     K8SNodeName |-> "", SystemNamespaceId |-> ""]

SomeSensor ==
    [isNil |-> FALSE, AppNamespace |-> "stackrox", AppNamespaceId |-> "ns-1",
     AppServiceaccountId |-> "sa-1", DefaultNamespaceId |-> "ns-0",
     K8SNodeName |-> "node-1", SystemNamespaceId |-> "ns-sys"]

\* names of remote resources; the remote service stores no empty name
Names == {"prod", "dev"}

\* remote identifiers, in the order the remote service hands them out
IdOf(n) == "id-" \o ToString(n)

\* ------------------------------------------------- Cluster: the mapper
\* The fields v1alpha1.ClusterParameters declares.
ClusterParameterFields ==
    {"AdmissionController", "AdmissionControllerEvents", "AdmissionControllerUpdates",
     "CentralAPIEndpoint", "CollectionMethod", "CollectorImage", "Labels",
     "MainImage", "Name", "SlimCollector", "Tolerations", "Type"}

\* A getter that takes a missing configuration for a disabled one.
GetDisabledIfMissing(t) == t.isNil \/ t.Disabled

\* The getter of a nil *TolerationsConfig yields false.
GetDisabled(t) == IF t.isNil THEN FALSE ELSE t.Disabled

\* The zero value of v1alpha1.ClusterObservation.
ZeroClusterObservation ==
    [AdmissionController |-> FALSE, AdmissionControllerEvents |-> FALSE,
     AdmissionControllerUpdates |-> FALSE, CentralAPIEndpoint |-> "",
     CollectionMethod |-> "", CollectorImage |-> "", ID |-> "",
     Labels |-> NilLabels, MainImage |-> "", ManagedBy |-> "",
     MostRecentSensor |->
        [AppNamespace |-> "", AppNamespaceID |-> "", AppServiceAccountID |-> "",
         DefaultNamespaceID |-> "", K8SNodeName |-> "", SystemNamespaceID |-> ""],
     Name |-> "", SlimCollector |-> FALSE, Tolerations |-> FALSE, Type |-> ""]

\* The zero value of storage.Cluster, the base of a create request.  Other
\* stands for every field of the remote entry the parameters do not declare
\* and the observation does not project (health status, dynamic config, ...).
ZeroCluster ==
    [Id |-> "", Name |-> "", Type |-> 0, Labels |-> NilLabels, MainImage |-> "",
     CollectorImage |-> "", CentralApiEndpoint |-> "", CollectionMethod |-> 0,
     AdmissionController |-> FALSE, AdmissionControllerUpdates |-> FALSE,
     AdmissionControllerEvents |-> FALSE, SlimCollector |-> FALSE,
     TolerationsConfig |-> NilTolerations, ManagedBy |-> 0,
     MostRecentSensorId |-> NilSensor, Other |-> ""]

generateClusterObservation(in) ==
    LET s == in.MostRecentSensorId
        mostRecentSensor ==
            [AppNamespace |-> s.AppNamespace,
             AppNamespaceID |-> s.AppNamespaceId,
             AppServiceAccountID |-> s.AppServiceaccountId,
             DefaultNamespaceID |-> s.DefaultNamespaceId,
             K8SNodeName |-> s.K8SNodeName,
             SystemNamespaceID |-> s.SystemNamespaceId]
    IN  [AdmissionController |-> in.AdmissionController,
         AdmissionControllerEvents |-> in.AdmissionControllerEvents,
         AdmissionControllerUpdates |-> in.AdmissionControllerUpdates,
         CentralAPIEndpoint |-> in.CentralApiEndpoint,
         CollectionMethod |-> NameOf(CollectionMethod_name, in.CollectionMethod),
         CollectorImage |-> in.CollectorImage,
         ID |-> in.Id,
         Labels |-> in.Labels,
         MainImage |-> in.MainImage,
         ManagedBy |-> NameOf(ManagerType_name, in.ManagedBy),
         MostRecentSensor |-> mostRecentSensor,
         Name |-> in.Name,
         SlimCollector |-> in.SlimCollector,
         Tolerations |-> ~GetDisabled(in.TolerationsConfig),
         Type |-> NameOf(ClusterType_name, in.Type)]

\* A generateCluster that builds the request from nothing, whatever the base.
generateClusterFromZero(in, base) ==
    [ZeroCluster EXCEPT
        !.AdmissionController = in.AdmissionController,
        !.AdmissionControllerEvents = in.AdmissionControllerEvents,
        !.AdmissionControllerUpdates = in.AdmissionControllerUpdates,
        !.CentralApiEndpoint = in.CentralAPIEndpoint,
        !.CollectionMethod = ValueOf(CollectionMethod_name, in.CollectionMethod),
        !.CollectorImage = in.CollectorImage,
        !.Labels = in.Labels,
        !.MainImage = in.MainImage,
        !.Name = in.Name,
        !.SlimCollector = in.SlimCollector,
        !.TolerationsConfig = TolerationsConfig(~in.Tolerations),
        !.Type = ValueOf(ClusterType_name, in.Type)]

\* base is ZeroCluster for a nil base.
generateCluster(in, base) ==
    [base EXCEPT
        !.AdmissionController = in.AdmissionController,
        !.AdmissionControllerEvents = in.AdmissionControllerEvents,
        !.AdmissionControllerUpdates = in.AdmissionControllerUpdates,
        !.CentralApiEndpoint = in.CentralAPIEndpoint,
        !.CollectionMethod = ValueOf(CollectionMethod_name, in.CollectionMethod),
        !.CollectorImage = in.CollectorImage,
        !.Labels = in.Labels,
        !.MainImage = in.MainImage,
        !.Name = in.Name,
        !.SlimCollector = in.SlimCollector,
        !.TolerationsConfig = TolerationsConfig(~in.Tolerations),
        !.Type = ValueOf(ClusterType_name, in.Type)]

\* The parameters isUpToDate projects from the remote entry.
observedClusterParams(observed) ==
    [AdmissionController |-> observed.AdmissionController,
     AdmissionControllerEvents |-> observed.AdmissionControllerEvents,
     AdmissionControllerUpdates |-> observed.AdmissionControllerUpdates,
     CentralAPIEndpoint |-> observed.CentralApiEndpoint,
     CollectionMethod |-> NameOf(CollectionMethod_name, observed.CollectionMethod),
     CollectorImage |-> observed.CollectorImage,
     Labels |-> observed.Labels,
     MainImage |-> observed.MainImage,
     Name |-> observed.Name,
     SlimCollector |-> observed.SlimCollector,
     Tolerations |-> ~GetDisabled(observed.TolerationsConfig),
     Type |-> NameOf(ClusterType_name, observed.Type)]

\* cmpopts.EquateEmpty: two maps of length 0 are equal, nil or not.
EquateEmpty(x, y) == x = y \/ (x.kv = {} /\ y.kv = {})

\* A cmp.Diff without the EquateEmpty option.
cmpDiffStrict(fields, x, y) ==
    {f \in fields : x[f] # y[f]}

\* cmp.Diff of two parameter structs: the report names exactly the fields
\* whose values differ; it is empty when none does.
cmpDiff(fields, x, y) ==
    {f \in fields : IF f = "Labels" THEN ~EquateEmpty(x[f], y[f]) ELSE x[f] # y[f]}

NoDiff == [text |-> "", fields |-> {}]

isUpToDateCluster(forProvider, observed) ==
    LET diff == cmpDiff(ClusterParameterFields, forProvider, observedClusterParams(observed))
    IN  IF diff # {}
        THEN [upToDate |-> FALSE,
              diff |-> [text |-> "Observed difference in cluster", fields |-> diff]]
        ELSE [upToDate |-> TRUE, diff |-> NoDiff]

\* ---------------------------------------------- InitBundle: the mapper
InitBundleParameterFields == {"Name"}

\* *types.Timestamp: nil, or seconds and nanoseconds
NilTimestamp == [isNil |-> TRUE, Seconds |-> 0, Nanos |-> 0]

Timestamp(s, n) == [isNil |-> FALSE, Seconds |-> s, Nanos |-> n]

\* metav1.NewTime(time.Unix(sec, nsec))
UnixTime(ts) == [sec |-> ts.Seconds, nsec |-> ts.Nanos]

\* *storage.User: nil, or the user with its attribute list
NilUser == [isNil |-> TRUE, Id |-> "", AuthProviderId |-> "", Attributes |-> << >>]

SomeUser ==
    [isNil |-> FALSE, Id |-> "user-1", AuthProviderId |-> "auth-1",
     Attributes |-> <<[Key |-> "role", Value |-> "Admin"]>>]

\* The zero value of v1alpha1.InitBundleObservation.
ZeroInitBundleObservation ==
    [CreatedAt |-> [sec |-> 0, nsec |-> 0],
     CreatedBy |-> [Attributes |-> NilLabels, AuthProviderID |-> "", ID |-> ""],
     ExpiresAt |-> [sec |-> 0, nsec |-> 0],
     ID |-> "", ImpactedClusters |-> << >>, Name |-> ""]

\* The attribute map built from the attribute list: a later entry of a key
\* overwrites an earlier one.
AttributesOf(list) ==
    [isNil |-> FALSE,
     kv |-> {<<list[i].Key, list[i].Value>> : i \in
                {i \in 1..Len(list) : \A j \in (i+1)..Len(list) : list[j].Key # list[i].Key}}]

generateInitBundleObservation(in) ==
    [CreatedAt |-> UnixTime(in.CreatedAt),
     CreatedBy |-> [Attributes |-> AttributesOf(in.CreatedBy.Attributes),
                    AuthProviderID |-> in.CreatedBy.AuthProviderId,
                    ID |-> in.CreatedBy.Id],
     ExpiresAt |-> UnixTime(in.ExpiresAt),
     ID |-> in.Id,
     ImpactedClusters |->
        [i \in 1..Len(in.ImpactedClusters) |->
            [ID |-> in.ImpactedClusters[i].Id, Name |-> in.ImpactedClusters[i].Name]],
     Name |-> in.Name]

isUpToDateInitBundle(forProvider, observed) ==
    LET diff == cmpDiff(InitBundleParameterFields, forProvider, [Name |-> observed.Name])
    IN  IF diff # {}
        THEN [upToDate |-> FALSE,
              diff |-> [text |-> "Observed difference in init bundle", fields |-> diff]]
        ELSE [upToDate |-> TRUE, diff |-> NoDiff]

\* ------------------------------------------------ both kinds, by kind
ZeroObservation(k) ==
    IF k = "Cluster" THEN ZeroClusterObservation ELSE ZeroInitBundleObservation

generateObservation(k, in) ==
    IF k = "Cluster" THEN generateClusterObservation(in) ELSE generateInitBundleObservation(in)

isUpToDate(k, forProvider, observed) ==
    IF k = "Cluster" THEN isUpToDateCluster(forProvider, observed)
    ELSE isUpToDateInitBundle(forProvider, observed)

\* A search that looks at the first entry of the collection only.
firstMatchHeadOnly(items, externalName) ==
    IF Len(items) > 0 /\ items[1].Name = externalName THEN 1 ELSE 0

\* getCluster / getInitBundle, after the list call succeeded: the index of
\* the first entry of the collection named as the external name, 0 for none.
firstMatch(items, externalName) ==
    LET hits == {i \in 1..Len(items) : items[i].Name = externalName}
    IN  IF hits = {} THEN 0 ELSE CHOOSE i \in hits : \A j \in hits : i <= j

\* ------------------------------------------------------------- the state
VARIABLES
    kind,       \* the kind the controller reconciles: "Cluster" or "InitBundle"
    cr,         \* the managed record: external name, spec, status, condition
    remote,     \* the remote collection of that kind, in list order
    nextId,     \* identifiers the remote service has handed out
    env,        \* out-of-band changes of the remote collection so far
    pc,         \* where the driver is in the current pass
    passes,     \* passes ended
    obs,        \* what this pass's Observe reported
    ret,        \* the last handler's return: operation, error, connection details
    calls,      \* remote calls issued in this pass, in order
    invoked,    \* handlers the driver invoked in this pass, in order
    touched,    \* the remote collection changed since the record's handlers last
                \* listed or changed it without an error
    lastAct,    \* what the driver invoked after its last successful Observe, and its error
    external,   \* connector.external: 0 for nil, else the connection it holds
    conns,      \* every connection opened so far: "open" or "closed"
    client,     \* the connection of the ExternalClient this pass's Connect returned
    cpc,        \* SpecConn: where each concurrent pass is
    cclient,    \* SpecConn: the connection each pass's Connect returned
    cret        \* SpecConn: the last connector call: pass, operation, error, closed

vars == <<kind, cr, remote, nextId, env, pc, passes, obs, ret, calls, invoked,
          touched, lastAct, external, conns, client, cpc, cclient, cret>>

recordVars == <<kind, cr, remote, nextId, env, pc, passes, obs, ret, calls, invoked,
                touched, lastAct, client>>

connVars == <<cpc, cclient, cret>>

Kinds == {"Cluster", "InitBundle"}

\* ------------------------------------------------------ desired parameters
\* The default parameter set of the Cluster CRD, as a cluster of type
\* KUBERNETES_CLUSTER named prod.
DefaultClusterParameters ==
    [AdmissionController |-> TRUE, AdmissionControllerEvents |-> FALSE,
     AdmissionControllerUpdates |-> FALSE, CentralAPIEndpoint |-> "central.stackrox:443",
     CollectionMethod |-> "EBPF", CollectorImage |-> "rhacs-collector-rhel8",
     Labels |-> NilLabels, MainImage |-> "rhacs-main-rhel8", Name |-> "prod",
     SlimCollector |-> TRUE, Tolerations |-> TRUE, Type |-> "KUBERNETES_CLUSTER"]

\* The parameter sets the record of Spec may declare.
ClusterSpecs ==
    {DefaultClusterParameters,
     [DefaultClusterParameters EXCEPT !.Labels = EmptyLabels, !.Tolerations = FALSE,
                                      !.CollectionMethod = "KERNEL_MODULE"]}

InitBundleSpecs == {[Name |-> "prod"]}

SpecsOf(k) == IF k = "Cluster" THEN ClusterSpecs ELSE InitBundleSpecs

\* The readiness condition: its reason (None before any was set) and its
\* last transition time.  xpv1.Available(), Creating() and Deleting() build
\* a condition whose transition time is the time of the call.
Condition(reason, now) == [reason |-> reason, at |-> now]

NoCondition == Condition("None", 0)

\* SetConditions keeps the stored condition, transition time included, when
\* the new one differs from it in the transition time only.
SetConditions(c, cond) ==
    IF c.ready.reason = cond.reason THEN c ELSE [c EXCEPT !.ready = cond]

NoObservation ==
    [reported |-> FALSE, ResourceExists |-> FALSE, ResourceUpToDate |-> FALSE, Diff |-> NoDiff]

NoDetails == {}

NoReturn == [op |-> "none", err |-> NoErr, details |-> NoDetails]

NoAct == [op |-> "none", err |-> NoErr]

\* ------------------------------------------------------- the remote service
\* What an empty map is on the wire: absent.  The service stores and returns
\* a map that was sent empty as a nil map.
Wire(m) == IF m.kv = {} THEN NilLabels ELSE m

\* PostCluster: the service stores the request under a fresh identifier and
\* under the name it assigns, and returns what it stored.
postCluster(req, id, name) ==
    [req EXCEPT !.Id = id, !.Name = name, !.Labels = Wire(req.Labels)]

\* PutCluster: the service replaces the entry of the request's identifier.
putCluster(items, req) ==
    [i \in 1..Len(items) |->
        IF items[i].Id = req.Id THEN [req EXCEPT !.Labels = Wire(req.Labels)] ELSE items[i]]

\* GenerateInitBundle: the metadata of the generated bundle.
generateInitBundle(id, name) ==
    [Id |-> id, Name |-> name, ImpactedClusters |-> << >>,
     CreatedAt |-> Timestamp(1000, 5), CreatedBy |-> SomeUser,
     ExpiresAt |-> Timestamp(2000, 0)]

\* DeleteCluster / RevokeInitBundle: the collection without the identifier.
without(items, id) == SelectSeq(items, LAMBDA it : it.Id # id)

hasId(items, id) == \E i \in 1..Len(items) : items[i].Id = id

\* An entry somebody else registered under this name.
foreignEntry(k, id, name) ==
    IF k = "Cluster"
    THEN [ZeroCluster EXCEPT !.Id = id, !.Name = name, !.Type = 2, !.ManagedBy = 2,
                             !.CollectorImage = "collector-custom",
                             !.MostRecentSensorId = SomeSensor, !.Other = "health:ok"]
    ELSE [Id |-> id, Name |-> name,
          ImpactedClusters |-> <<[Id |-> "cluster-1", Name |-> "prod"]>>,
          CreatedAt |-> NilTimestamp, CreatedBy |-> NilUser, ExpiresAt |-> Timestamp(3000, 0)]

\* The out-of-band changes of one entry.
Drifts(k) ==
    IF k = "Cluster"
    THEN {"CollectorImage", "Type", "Labels"}
    ELSE {"ImpactedClusters"}

drift(it, d) ==
    CASE d = "CollectorImage" -> [it EXCEPT !.CollectorImage = "collector-v2"]
      [] d = "Type" -> [it EXCEPT !.Type = 3]
      [] d = "Labels" -> [it EXCEPT !.Labels = IF it.Labels.kv = {} THEN SomeLabels ELSE NilLabels]
      [] d = "ImpactedClusters" ->
            [it EXCEPT !.ImpactedClusters = <<[Id |-> "cluster-2", Name |-> "dev"]>>]

insertAt(items, i, it) == SubSeq(items, 1, i - 1) \o <<it>> \o SubSeq(items, i, Len(items))

removeAt(items, i) == SubSeq(items, 1, i - 1) \o SubSeq(items, i + 1, Len(items))

\* ------------------------------------------------------------------- Init
\* The record as the driver first sees it: no status, no condition; the
\* external name is unset or the name the driver's initializer gave it.
Init ==
    /\ kind \in Kinds
    /\ \E fp \in SpecsOf(kind), xn \in {""} \cup Names :
          cr = [kind |-> kind, externalName |-> xn, forProvider |-> fp,
                atProvider |-> ZeroObservation(kind), ready |-> NoCondition,
                deleted |-> FALSE]
    /\ remote = << >>
    /\ nextId = 0
    /\ env = 0
    /\ pc = "idle"
    /\ passes = 0
    /\ obs = NoObservation
    /\ ret = NoReturn
    /\ calls = << >>
    /\ invoked = << >>
    /\ touched = FALSE
    /\ lastAct = NoAct
    /\ external = 0
    /\ conns = << >>
    /\ client = 0
    /\ cpc = << >>
    /\ cclient = << >>
    /\ cret = [pass |-> 0, op |-> "none", err |-> NoErr, closed |-> 0]

\* ---------------------------------------------------------- the connector
\* grpc.ClientConn.Close: closes an open connection; on a connection that
\* was closed before it returns ErrClientConnClosing.
grpcClose(cs, id) ==
    [conns |-> [cs EXCEPT ![id] = "closed"],
     err |-> IF cs[id] = "open" THEN NoErr ELSE NewErr(ErrConnClosing),
     closed |-> IF cs[id] = "open" THEN id ELSE 0]

\* external.close on the external the connector holds (0: a nil external).
\* An external built by Connect always holds a client.
externalClose(cs, e) ==
    IF e # 0
    THEN LET r == grpcClose(cs, e)
         IN  [conns |-> r.conns, err |-> Wrap(r.err, ErrCloseClient), closed |-> r.closed]
    ELSE [conns |-> cs, err |-> NoErr, closed |-> 0]

\* connector.Disconnect: closes whatever connector.external holds now.
connectorDisconnect(cs, e) ==
    LET r == externalClose(cs, e)
    IN  [conns |-> r.conns, err |-> Wrap(r.err, ErrCloseClient), closed |-> r.closed]

\* A remote call as the pass's log keeps it: the method, what it carried
\* (the request, or the identifier of a delete) and the error it returned.
Call(rpc, arg, err) == [rpc |-> rpc, arg |-> arg, err |-> err]

\* The steps of Connect that may fail, in the order Connect takes them.
ConnectSteps == <<"Track", "GetProviderConfig", "ExtractCredentials", "NewGRPC">>

ConnectFailures == SUBSET {ConnectSteps[i] : i \in 1..Len(ConnectSteps)}

\* The error each step of Connect returns under.
connectError(step) ==
    CASE step = "Track" -> errTrackPCUsage
      [] step = "GetProviderConfig" -> errGetPC
      [] step = "ExtractCredentials" -> errGetCreds
      [] step = "NewGRPC" -> ErrNewClient

\* A Connect that opens the connection first and resolves the provider
\* configuration and the credential afterwards.
connectorConnectDialsFirst(k, c, cs, e, failing) ==
    LET bad == {i \in 1..Len(ConnectSteps) : ConnectSteps[i] \in failing}
        last == IF bad = {} THEN Len(ConnectSteps)
                ELSE CHOOSE i \in bad : \A j \in bad : i <= j
        taken == [i \in 1..last |->
                    Call(ConnectSteps[i], "",
                         IF i \in bad THEN NewErr(ErrRPC) ELSE NoErr)]
        dialled == IF "NewGRPC" \in failing THEN cs ELSE Append(cs, "open")
    IN  IF c.kind # k
        THEN [err |-> NewErr(errNotThisKind(k)), conns |-> cs, external |-> e,
              client |-> 0, steps |-> << >>]
        ELSE IF bad # {}
        THEN [err |-> Wrap(NewErr(ErrRPC), connectError(ConnectSteps[last])),
              conns |-> dialled, external |-> e, client |-> 0, steps |-> taken]
        ELSE [err |-> NoErr, conns |-> Append(cs, "open"), external |-> Len(cs) + 1,
              client |-> Len(cs) + 1, steps |-> taken]

\* connector.Connect on record c, failing holding the steps that fail if
\* they are reached: after the type assertion the steps are taken in order,
\* Connect returning at the first that fails; when none does a new
\* connection is open and connector.external holds it.  steps is what was
\* called, with each call's error.
connectorConnect(k, c, cs, e, failing) ==
    LET bad == {i \in 1..Len(ConnectSteps) : ConnectSteps[i] \in failing}
        last == IF bad = {} THEN Len(ConnectSteps)
                ELSE CHOOSE i \in bad : \A j \in bad : i <= j
        taken == [i \in 1..last |->
                    Call(ConnectSteps[i], "",
                         IF i \in bad THEN NewErr(ErrRPC) ELSE NoErr)]
    IN  IF c.kind # k
        THEN [err |-> NewErr(errNotThisKind(k)), conns |-> cs, external |-> e,
              client |-> 0, steps |-> << >>]
        ELSE IF bad # {}
        THEN [err |-> Wrap(NewErr(ErrRPC), connectError(ConnectSteps[last])),
              conns |-> cs, external |-> e, client |-> 0, steps |-> taken]
        ELSE [err |-> NoErr, conns |-> Append(cs, "open"), external |-> Len(cs) + 1,
              client |-> Len(cs) + 1, steps |-> taken]

\* What Setup hands the reconciler: the Cluster controller registers its
\* connector WithExternalConnecter, which never calls Disconnect; the
\* InitBundle controller registers it WithExternalConnectDisconnecter.
disconnects(k) == k = "InitBundle"

\* ----------------------------------------------------------- the handlers
RpcOutcomes == {"ok", "fail"}

\* A mutating call may also take effect and still return an error (the
\* response is lost, the deadline passes).
MutatingOutcomes == {"ok", "fail", "lost"}

\* The error a call returns: none when it went through.
rpcError(o) == IF o = "ok" THEN NoErr ELSE NewErr(ErrRPC)

listRpc(k) == IF k = "Cluster" THEN "GetClusters" ELSE "GetInitBundles"

createRpc(k) == IF k = "Cluster" THEN "PostCluster" ELSE "GenerateInitBundle"

deleteRpc(k) == IF k = "Cluster" THEN "DeleteCluster" ELSE "RevokeInitBundle"

MutatingRpcs == {"PostCluster", "GenerateInitBundle", "PutCluster", "DeleteCluster",
                 "RevokeInitBundle"}

\* getCluster / getInitBundle: the list call and the search.  The error of
\* the list call is wrapped with errGetFailed by getCluster and with
\* errObserveFailed by getInitBundle.
getEntry(k, c, items, o) ==
    IF rpcError(o) # NoErr
    THEN [err |-> Wrap(rpcError(o), IF k = "Cluster" THEN errGetFailed(k) ELSE errObserveFailed(k)),
          found |-> 0]
    ELSE [err |-> NoErr, found |-> firstMatch(items, c.externalName)]

\* An Observe that takes a failed list call for an empty collection.
observeFailureAsAbsent(k, c, items, o, now) ==
    LET got == getEntry(k, c, items, o)
        call == <<Call(listRpc(k), "", rpcError(o))>>
    IN  IF got.err # NoErr \/ got.found = 0
        THEN [cr |-> c, obs |-> [NoObservation EXCEPT !.reported = TRUE], err |-> NoErr,
              calls |-> call]
        ELSE LET it == items[got.found]
                 c1 == [c EXCEPT !.atProvider = generateObservation(k, it)]
                 c2 == SetConditions(c1, Condition("Available", now))
                 u  == isUpToDate(k, c2.forProvider, it)
             IN  [cr |-> c2,
                  obs |-> [reported |-> TRUE, ResourceExists |-> TRUE,
                           ResourceUpToDate |-> u.upToDate, Diff |-> u.diff],
                  err |-> NoErr, calls |-> call]

\* An Observe that, finding no entry, falls back on the ObservedState an
\* earlier pass left on the record.
observeTrustsStatus(k, c, items, o, now) ==
    LET got == getEntry(k, c, items, o)
        call == <<Call(listRpc(k), "", rpcError(o))>>
    IN  IF c.kind # k
        THEN [cr |-> c, obs |-> NoObservation, err |-> NewErr(errNotThisKind(k)),
              calls |-> << >>]
        ELSE IF got.err # NoErr
        THEN [cr |-> c, obs |-> NoObservation, err |-> Wrap(got.err, errObserveFailed(k)),
              calls |-> call]
        ELSE IF got.found = 0
        THEN [cr |-> c,
              obs |-> [NoObservation EXCEPT !.reported = TRUE,
                                            !.ResourceExists = c.atProvider.ID # ""],
              err |-> NoErr, calls |-> call]
        ELSE LET it == items[got.found]
                 c1 == [c EXCEPT !.atProvider = generateObservation(k, it)]
                 c2 == SetConditions(c1, Condition("Available", now))
                 u  == isUpToDate(k, c2.forProvider, it)
             IN  [cr |-> c2,
                  obs |-> [reported |-> TRUE, ResourceExists |-> TRUE,
                           ResourceUpToDate |-> u.upToDate, Diff |-> u.diff],
                  err |-> NoErr, calls |-> call]

\* An Observe that leaves the readiness condition as it found it.
observeKeepsCondition(k, c, items, o, now) ==
    LET got == getEntry(k, c, items, o)
        call == <<Call(listRpc(k), "", rpcError(o))>>
    IN  IF c.kind # k
        THEN [cr |-> c, obs |-> NoObservation, err |-> NewErr(errNotThisKind(k)),
              calls |-> << >>]
        ELSE IF got.err # NoErr
        THEN [cr |-> c, obs |-> NoObservation, err |-> Wrap(got.err, errObserveFailed(k)),
              calls |-> call]
        ELSE IF got.found = 0
        THEN [cr |-> c, obs |-> [NoObservation EXCEPT !.reported = TRUE], err |-> NoErr,
              calls |-> call]
        ELSE LET it == items[got.found]
                 c1 == [c EXCEPT !.atProvider = generateObservation(k, it)]
                 u  == isUpToDate(k, c1.forProvider, it)
             IN  [cr |-> c1,
                  obs |-> [reported |-> TRUE, ResourceExists |-> TRUE,
                           ResourceUpToDate |-> u.upToDate, Diff |-> u.diff],
                  err |-> NoErr, calls |-> call]

\* external.Observe
observe(k, c, items, o, now) ==
    LET got == getEntry(k, c, items, o)
        call == <<Call(listRpc(k), "", rpcError(o))>>
    IN  IF c.kind # k
        THEN [cr |-> c, obs |-> NoObservation, err |-> NewErr(errNotThisKind(k)),
              calls |-> << >>]
        ELSE IF got.err # NoErr
        THEN [cr |-> c, obs |-> NoObservation, err |-> Wrap(got.err, errObserveFailed(k)),
              calls |-> call]
        ELSE IF got.found = 0
        THEN [cr |-> c, obs |-> [NoObservation EXCEPT !.reported = TRUE], err |-> NoErr,
              calls |-> call]
        ELSE LET it == items[got.found]
                 c1 == [c EXCEPT !.atProvider = generateObservation(k, it)]
                 c2 == SetConditions(c1, Condition("Available", now))
                 u  == isUpToDate(k, c2.forProvider, it)
             IN  [cr |-> c2,
                  obs |-> [reported |-> TRUE, ResourceExists |-> TRUE,
                           ResourceUpToDate |-> u.upToDate, Diff |-> u.diff],
                  err |-> NoErr, calls |-> call]

\* The request Create sends.
createRequest(k, c) ==
    IF k = "Cluster" THEN generateCluster(c.forProvider, ZeroCluster)
    ELSE [Name |-> c.forProvider.Name]

\* What the remote service stores for a create request.
created(k, req, id, name) ==
    IF k = "Cluster" THEN postCluster(req, id, name) ELSE generateInitBundle(id, name)

\* A Create that names the record as it asked, not as the service answered.
createNamedAsRequested(k, c, items, id, name, o, now) ==
    LET c1  == SetConditions(c, Condition("Creating", now))
        req == createRequest(k, c1)
        it  == created(k, req, id, name)
        after == IF o = "fail" THEN items ELSE Append(items, it)
        call == <<Call(createRpc(k), req, rpcError(o))>>
    IN  IF rpcError(o) # NoErr
        THEN [cr |-> c1, err |-> Wrap(rpcError(o), errCreateFailed(k)),
              details |-> NoDetails, calls |-> call, remote |-> after]
        ELSE [cr |-> [c1 EXCEPT !.atProvider = generateObservation(k, it),
                                !.externalName = req.Name],
              err |-> NoErr,
              details |-> IF k = "Cluster" THEN NoDetails
                          ELSE {<<"helmValuesBundle", "helm-values-of-" \o id>>,
                                <<"kubectlBundle", "kubectl-of-" \o id>>},
              calls |-> call, remote |-> after]

\* A Create that links the record to the requested name before the call,
\* and leaves it linked when the call fails.
createLinksBeforeCall(k, c, items, id, name, o, now) ==
    LET c1  == SetConditions(c, Condition("Creating", now))
        req == createRequest(k, c1)
        it  == created(k, req, id, name)
        after == IF o = "fail" THEN items ELSE Append(items, it)
        call == <<Call(createRpc(k), req, rpcError(o))>>
    IN  IF rpcError(o) # NoErr
        THEN [cr |-> [c1 EXCEPT !.externalName = req.Name],
              err |-> Wrap(rpcError(o), errCreateFailed(k)),
              details |-> NoDetails, calls |-> call, remote |-> after]
        ELSE [cr |-> [c1 EXCEPT !.atProvider = generateObservation(k, it),
                                !.externalName = it.Name],
              err |-> NoErr,
              details |-> IF k = "Cluster" THEN NoDetails
                          ELSE {<<"helmValuesBundle", "helm-values-of-" \o id>>,
                                <<"kubectlBundle", "kubectl-of-" \o id>>},
              calls |-> call, remote |-> after]

\* A Create of the InitBundle kind that also records the kubectl bundle in
\* the ObservedState.
createRecordsBundle(k, c, items, id, name, o, now) ==
    LET c1  == SetConditions(c, Condition("Creating", now))
        req == createRequest(k, c1)
        it  == created(k, req, id, name)
        after == IF o = "fail" THEN items ELSE Append(items, it)
        call == <<Call(createRpc(k), req, rpcError(o))>>
    IN  IF c.kind # k
        THEN [cr |-> c, err |-> NewErr(errNotThisKind(k)), details |-> NoDetails,
              calls |-> << >>, remote |-> items]
        ELSE IF rpcError(o) # NoErr
        THEN [cr |-> c1, err |-> Wrap(rpcError(o), errCreateFailed(k)),
              details |-> NoDetails, calls |-> call, remote |-> after]
        ELSE [cr |-> [c1 EXCEPT !.atProvider =
                                    IF k = "Cluster" THEN generateObservation(k, it)
                                    ELSE [generateObservation(k, it) EXCEPT
                                              !.Name = "kubectl-of-" \o id],
                                !.externalName = it.Name],
              err |-> NoErr,
              details |-> IF k = "Cluster" THEN NoDetails
                          ELSE {<<"helmValuesBundle", "helm-values-of-" \o id>>,
                                <<"kubectlBundle", "kubectl-of-" \o id>>},
              calls |-> call, remote |-> after]

\* external.Create.  id and name are what the remote service assigns if it
\* creates the resource.
create(k, c, items, id, name, o, now) ==
    LET c1  == SetConditions(c, Condition("Creating", now))
        req == createRequest(k, c1)
        it  == created(k, req, id, name)
        after == IF o = "fail" THEN items ELSE Append(items, it)
        call == <<Call(createRpc(k), req, rpcError(o))>>
    IN  IF c.kind # k
        THEN [cr |-> c, err |-> NewErr(errNotThisKind(k)), details |-> NoDetails,
              calls |-> << >>, remote |-> items]
        ELSE IF rpcError(o) # NoErr
        THEN [cr |-> c1, err |-> Wrap(rpcError(o), errCreateFailed(k)),
              details |-> NoDetails, calls |-> call, remote |-> after]
        ELSE [cr |-> [c1 EXCEPT !.atProvider = generateObservation(k, it),
                                !.externalName = it.Name],
              err |-> NoErr,
              details |-> IF k = "Cluster" THEN NoDetails
                          ELSE {<<"helmValuesBundle", "helm-values-of-" \o id>>,
                                <<"kubectlBundle", "kubectl-of-" \o id>>},
              calls |-> call, remote |-> after]

\* A Delete that asks for the removal of what is named as the record.
deleteByExternalName(k, c, items, o, now) ==
    LET c1 == SetConditions(c, Condition("Deleting", now))
        id == c1.externalName
        rpcErr == IF rpcError(o) # NoErr THEN rpcError(o)
                  ELSE IF k = "Cluster" /\ ~hasId(items, id) THEN NewErr(ErrRPCNotFound)
                  ELSE NoErr
        call == <<Call(deleteRpc(k), id, rpcErr)>>
    IN  [cr |-> c1, err |-> Wrap(rpcErr, errDeleteFailed(k)), calls |-> call,
         remote |-> IF o = "fail" THEN items ELSE without(items, id)]

\* A Delete that marks the record as Deleting before it asserts its kind.
deleteMarksBeforeAssert(k, c, items, o, now) ==
    LET c1 == SetConditions(c, Condition("Deleting", now))
        id == c1.atProvider.ID
        rpcErr == IF rpcError(o) # NoErr THEN rpcError(o)
                  ELSE IF k = "Cluster" /\ ~hasId(items, id) THEN NewErr(ErrRPCNotFound)
                  ELSE NoErr
        call == <<Call(deleteRpc(k), id, rpcErr)>>
    IN  IF c.kind # k
        THEN [cr |-> c1, err |-> NewErr(errNotThisKind(k)), calls |-> << >>,
              remote |-> items]
        ELSE [cr |-> c1, err |-> Wrap(rpcErr, errDeleteFailed(k)), calls |-> call,
              remote |-> IF o = "fail" THEN items ELSE without(items, id)]

\* A Delete that leaves the readiness condition as it found it.
deleteKeepsCondition(k, c, items, o, now) ==
    LET id == c.atProvider.ID
        rpcErr == IF rpcError(o) # NoErr THEN rpcError(o)
                  ELSE IF k = "Cluster" /\ ~hasId(items, id) THEN NewErr(ErrRPCNotFound)
                  ELSE NoErr
        call == <<Call(deleteRpc(k), id, rpcErr)>>
    IN  IF c.kind # k
        THEN [cr |-> c, err |-> NewErr(errNotThisKind(k)), calls |-> << >>,
              remote |-> items]
        ELSE [cr |-> c, err |-> Wrap(rpcErr, errDeleteFailed(k)), calls |-> call,
              remote |-> IF o = "fail" THEN items ELSE without(items, id)]

\* external.Delete.  DeleteCluster of an identifier the service does not
\* hold fails with not-found; RevokeInitBundle reports it in its response,
\* which Delete does not read.
delete(k, c, items, o, now) ==
    LET c1 == SetConditions(c, Condition("Deleting", now))
        id == c1.atProvider.ID
        rpcErr == IF rpcError(o) # NoErr THEN rpcError(o)
                  ELSE IF k = "Cluster" /\ ~hasId(items, id) THEN NewErr(ErrRPCNotFound)
                  ELSE NoErr
        call == <<Call(deleteRpc(k), id, rpcErr)>>
    IN  IF c.kind # k
        THEN [cr |-> c, err |-> NewErr(errNotThisKind(k)), calls |-> << >>,
              remote |-> items]
        ELSE [cr |-> c1, err |-> Wrap(rpcErr, errDeleteFailed(k)), calls |-> call,
              remote |-> IF o = "fail" THEN items ELSE without(items, id)]

\* An Update that records what it asked for before the replace call answers.
updateClusterRecordsRequest(c, items, o1, o2) ==
    LET k   == "Cluster"
        got == getEntry(k, c, items, o1)
        list == <<Call(listRpc(k), "", rpcError(o1))>>
    IN  IF got.err # NoErr
        THEN [cr |-> c, err |-> Wrap(got.err, errUpdateFailed(k)), calls |-> list,
              remote |-> items]
        ELSE IF got.found = 0
        THEN [cr |-> c, err |-> NoErr, calls |-> list, remote |-> items]
        ELSE LET req == generateCluster(c.forProvider, items[got.found])
                 after == IF o2 = "fail" THEN items ELSE putCluster(items, req)
                 it == [req EXCEPT !.Labels = Wire(req.Labels)]
                 both == list \o <<Call("PutCluster", req, rpcError(o2))>>
                 c1 == [c EXCEPT !.atProvider = generateObservation(k, it),
                                 !.externalName = it.Name]
             IN  IF rpcError(o2) # NoErr
                 THEN [cr |-> c1, err |-> Wrap(rpcError(o2), errCreateFailed(k)),
                       calls |-> both, remote |-> after]
                 ELSE [cr |-> c1, err |-> NoErr, calls |-> both, remote |-> after]

\* An Update that, having found no entry, sends a replace request built on
\* no entry at all.
updateClusterReplacesUnfetched(c, items, o1, o2) ==
    LET k   == "Cluster"
        got == getEntry(k, c, items, o1)
        list == <<Call(listRpc(k), "", rpcError(o1))>>
    IN  IF c.kind # k
        THEN [cr |-> c, err |-> NewErr(errNotThisKind(k)), calls |-> << >>,
              remote |-> items]
        ELSE IF got.err # NoErr
        THEN [cr |-> c, err |-> Wrap(got.err, errUpdateFailed(k)), calls |-> list,
              remote |-> items]
        ELSE LET req == generateCluster(c.forProvider,
                                        IF got.found = 0 THEN ZeroCluster
                                        ELSE items[got.found])
                 after == IF o2 = "fail" THEN items ELSE putCluster(items, req)
                 it == [req EXCEPT !.Labels = Wire(req.Labels)]
                 both == list \o <<Call("PutCluster", req, rpcError(o2))>>
             IN  IF rpcError(o2) # NoErr
                 THEN [cr |-> c, err |-> Wrap(rpcError(o2), errCreateFailed(k)),
                       calls |-> both, remote |-> after]
                 ELSE [cr |-> [c EXCEPT !.atProvider = generateObservation(k, it),
                                        !.externalName = it.Name],
                       err |-> NoErr, calls |-> both, remote |-> after]

\* external.Update of the Cluster kind: the collection is listed again (o1)
\* and the entry found is sent back (o2) with the parameters mapped onto it.
updateCluster(c, items, o1, o2) ==
    LET k   == "Cluster"
        got == getEntry(k, c, items, o1)
        list == <<Call(listRpc(k), "", rpcError(o1))>>
    IN  IF c.kind # k
        THEN [cr |-> c, err |-> NewErr(errNotThisKind(k)), calls |-> << >>,
              remote |-> items]
        ELSE IF got.err # NoErr
        THEN [cr |-> c, err |-> Wrap(got.err, errUpdateFailed(k)), calls |-> list,
              remote |-> items]
        ELSE IF got.found = 0
        THEN [cr |-> c, err |-> NoErr, calls |-> list, remote |-> items]
        ELSE LET req == generateCluster(c.forProvider, items[got.found])
                 after == IF o2 = "fail" THEN items ELSE putCluster(items, req)
                 it == [req EXCEPT !.Labels = Wire(req.Labels)]
                 both == list \o <<Call("PutCluster", req, rpcError(o2))>>
             IN  IF rpcError(o2) # NoErr
                 THEN [cr |-> c, err |-> Wrap(rpcError(o2), errCreateFailed(k)),
                       calls |-> both, remote |-> after]
                 ELSE [cr |-> [c EXCEPT !.atProvider = generateObservation(k, it),
                                        !.externalName = it.Name],
                       err |-> NoErr, calls |-> both, remote |-> after]

\* An Update that, having revoked the bundle, generates its replacement in
\* the same pass.
updateInitBundleRecreates(c, items, o, now) ==
    IF c.ready = Condition("Creating", now) \/ c.ready = Condition("Deleting", now)
    THEN [cr |-> c, err |-> NoErr, calls |-> << >>, remote |-> items]
    ELSE LET d == delete("InitBundle", c, items, o, now)
             again == Call(createRpc("InitBundle"), createRequest("InitBundle", c), NoErr)
         IN  [d EXCEPT !.err = Wrap(d.err, errUpdateFailed("InitBundle")),
                       !.calls = Append(d.calls, again)]

\* An Update of the InitBundle kind that waits whatever the condition is.
updateInitBundleWaits(c, items, o, now) ==
    IF c.kind # "InitBundle"
    THEN [cr |-> c, err |-> NewErr(errNotThisKind("InitBundle")), calls |-> << >>,
          remote |-> items]
    ELSE [cr |-> c, err |-> NoErr, calls |-> << >>, remote |-> items]

\* external.Update of the InitBundle kind: nothing while the condition
\* equals a Creating or Deleting condition built now, else Delete.
updateInitBundle(c, items, o, now) ==
    IF c.kind # "InitBundle"
    THEN [cr |-> c, err |-> NewErr(errNotThisKind("InitBundle")), calls |-> << >>,
          remote |-> items]
    ELSE IF c.ready = Condition("Creating", now) \/ c.ready = Condition("Deleting", now)
    THEN [cr |-> c, err |-> NoErr, calls |-> << >>, remote |-> items]
    ELSE LET d == delete("InitBundle", c, items, o, now)
         IN  [d EXCEPT !.err = Wrap(d.err, errUpdateFailed("InitBundle"))]

update(k, c, items, o1, o2, now) ==
    IF k = "Cluster" THEN updateCluster(c, items, o1, o2)
    ELSE updateInitBundle(c, items, o2, now)

\* ------------------------------------------------------------- the driver
\* What the managed reconciler does with an observation: Delete a record
\* whose deletion was requested while the resource exists and release the
\* record once it does not; else Create what does not exist, leave alone
\* what is up to date, Update the rest.
driverNext(c, o) ==
    IF c.deleted THEN (IF o.ResourceExists THEN "Delete" ELSE "Finalize")
    ELSE IF ~o.ResourceExists THEN "Create"
    ELSE IF o.ResourceUpToDate THEN "None"
    ELSE "Update"

\* The time a handler reads when it builds a condition: every call reads a
\* later time than every call before it (a pass calls Observe and at most
\* one more handler).
Now == 2 * passes + Len(invoked) + 1

Return(op, err, details) == [op |-> op, err |-> err, details |-> details]

\* A pass starts with Connect.
Connect ==
    /\ pc = "idle"
    /\ passes + env < MaxEvents
    /\ \E failing \in ConnectFailures :
          LET r == connectorConnect(kind, cr, conns, external, failing)
          IN  /\ conns' = r.conns
              /\ external' = r.external
              /\ client' = r.client
              /\ ret' = Return("Connect", r.err, NoDetails)
              /\ pc' = IF r.err = NoErr THEN "connected" ELSE "unconnected"
    /\ UNCHANGED <<kind, cr, remote, nextId, env, passes, obs, calls, invoked, touched,
                   lastAct, connVars>>

\* Connect failed: the driver reports the error and the pass returns; there
\* is nothing to disconnect.
Requeue ==
    /\ pc = "unconnected"
    /\ pc' = "idle"
    /\ passes' = passes + 1
    /\ ret' = NoReturn
    /\ UNCHANGED <<kind, cr, remote, nextId, env, obs, calls, invoked, touched, lastAct,
                   external, conns, client, connVars>>

Observe ==
    /\ pc = "connected"
    /\ \E o \in RpcOutcomes :
          LET r == observe(kind, cr, remote, o, Now)
          IN  /\ cr' = r.cr
              /\ obs' = r.obs
              /\ ret' = Return("Observe", r.err, NoDetails)
              /\ calls' = calls \o r.calls
              /\ touched' = IF r.err = NoErr THEN FALSE ELSE touched
              /\ pc' = IF r.err = NoErr THEN "observed" ELSE "acted"
    /\ invoked' = Append(invoked, "Observe")
    /\ UNCHANGED <<kind, remote, nextId, env, passes, lastAct, external, conns, client,
                   connVars>>

Create ==
    /\ pc = "observed"
    /\ driverNext(cr, obs) = "Create"
    /\ \E o \in MutatingOutcomes, name \in Names :
          /\ o = "fail" \/ Len(remote) < MaxRemote
          /\ LET r == create(kind, cr, remote, IdOf(nextId + 1), name, o, Now)
             IN  /\ cr' = r.cr
                 /\ remote' = r.remote
                 /\ ret' = Return("Create", r.err, r.details)
                 /\ calls' = calls \o r.calls
                 /\ lastAct' = [op |-> "Create", err |-> r.err]
                 /\ touched' = IF r.err = NoErr THEN FALSE ELSE (touched \/ r.remote # remote)
          /\ nextId' = IF o = "fail" THEN nextId ELSE nextId + 1
    /\ invoked' = Append(invoked, "Create")
    /\ pc' = "acted"
    /\ UNCHANGED <<kind, env, passes, obs, external, conns, client, connVars>>

Update ==
    /\ pc = "observed"
    /\ driverNext(cr, obs) = "Update"
    /\ \E o1 \in RpcOutcomes, o2 \in MutatingOutcomes :
          LET r == update(kind, cr, remote, o1, o2, Now)
          IN  /\ cr' = r.cr
              /\ remote' = r.remote
              /\ ret' = Return("Update", r.err, NoDetails)
              /\ calls' = calls \o r.calls
              /\ lastAct' = [op |-> "Update", err |-> r.err]
              /\ touched' = IF r.err = NoErr THEN FALSE ELSE (touched \/ r.remote # remote)
    /\ invoked' = Append(invoked, "Update")
    /\ pc' = "acted"
    /\ UNCHANGED <<kind, nextId, env, passes, obs, external, conns, client, connVars>>

Delete ==
    /\ pc = "observed"
    /\ driverNext(cr, obs) = "Delete"
    /\ \E o \in MutatingOutcomes :
          LET r == delete(kind, cr, remote, o, Now)
          IN  /\ cr' = r.cr
              /\ remote' = r.remote
              /\ ret' = Return("Delete", r.err, NoDetails)
              /\ calls' = calls \o r.calls
              /\ lastAct' = [op |-> "Delete", err |-> r.err]
              /\ touched' = IF r.err = NoErr THEN FALSE ELSE (touched \/ r.remote # remote)
    /\ invoked' = Append(invoked, "Delete")
    /\ pc' = "acted"
    /\ UNCHANGED <<kind, nextId, env, passes, obs, external, conns, client, connVars>>

\* The resource is up to date: the driver invokes nothing more.
Skip ==
    /\ pc = "observed"
    /\ driverNext(cr, obs) = "None"
    /\ ret' = Return("None", NoErr, NoDetails)
    /\ lastAct' = NoAct
    /\ pc' = "acted"
    /\ UNCHANGED <<kind, cr, remote, nextId, env, passes, obs, calls, invoked,
                   touched, external, conns, client, connVars>>

\* The record is being deleted and the resource is gone: the driver
\* releases the record.
Finalize ==
    /\ pc = "observed"
    /\ driverNext(cr, obs) = "Finalize"
    /\ ret' = Return("Finalize", NoErr, NoDetails)
    /\ pc' = "acted"
    /\ UNCHANGED <<kind, cr, remote, nextId, env, passes, obs, calls, invoked,
                   touched, lastAct, external, conns, client, connVars>>

\* The pass returns; the reconciler calls the Disconnect it was given.  What
\* the pass logged (its observation, its calls, its last return) ends with it.
Disconnect ==
    /\ pc = "acted"
    /\ disconnects(kind)
    /\ LET r == connectorDisconnect(conns, external)
       IN  conns' = r.conns
    /\ pc' = IF ret.op = "Finalize" THEN "gone" ELSE "idle"
    /\ passes' = passes + 1
    /\ obs' = NoObservation
    /\ ret' = NoReturn
    /\ calls' = << >>
    /\ invoked' = << >>
    /\ UNCHANGED <<kind, cr, remote, nextId, env, touched, lastAct, external, client,
                   connVars>>

NopDisconnect ==
    /\ pc = "acted"
    /\ ~disconnects(kind)
    /\ pc' = IF ret.op = "Finalize" THEN "gone" ELSE "idle"
    /\ passes' = passes + 1
    /\ obs' = NoObservation
    /\ ret' = NoReturn
    /\ calls' = << >>
    /\ invoked' = << >>
    /\ UNCHANGED <<kind, cr, remote, nextId, env, touched, lastAct, external, conns,
                   client, connVars>>

\* The user asks for the record's deletion.
RequestDeletion ==
    /\ pc = "idle"
    /\ ~cr.deleted
    /\ cr' = [cr EXCEPT !.deleted = TRUE]
    /\ UNCHANGED <<kind, remote, nextId, env, pc, passes, obs, ret, calls, invoked,
                   touched, lastAct, external, conns, client, connVars>>

\* The remote collection changes out of band between two passes or between
\* a pass's Observe and the handler that follows it (a change at another
\* point of a pass is seen by the same handlers as one of these).
EnvPoints == {"idle", "observed"}

\* Somebody else registers a resource, anywhere in the collection.
EnvAdd ==
    /\ passes + env < MaxEvents
    /\ Len(remote) < MaxRemote
    /\ pc \in EnvPoints
    /\ \E name \in Names, i \in 1..(Len(remote) + 1) :
          remote' = insertAt(remote, i, foreignEntry(kind, IdOf(nextId + 1), name))
    /\ nextId' = nextId + 1
    /\ env' = env + 1
    /\ touched' = TRUE
    /\ UNCHANGED <<kind, cr, pc, passes, obs, ret, calls, invoked, lastAct,
                   external, conns, client, connVars>>

\* Somebody else removes a resource.
EnvRemove ==
    /\ passes + env < MaxEvents
    /\ pc \in EnvPoints
    /\ \E i \in 1..Len(remote) : remote' = removeAt(remote, i)
    /\ env' = env + 1
    /\ touched' = TRUE
    /\ UNCHANGED <<kind, cr, nextId, pc, passes, obs, ret, calls, invoked,                    lastAct, external, conns, client, connVars>>

\* Somebody else changes a resource.
EnvDrift ==
    /\ passes + env < MaxEvents
    /\ pc \in EnvPoints
    /\ \E i \in 1..Len(remote), d \in Drifts(kind) :
          /\ drift(remote[i], d) # remote[i]
          /\ remote' = [remote EXCEPT ![i] = drift(remote[i], d)]
    /\ env' = env + 1
    /\ touched' = TRUE
    /\ UNCHANGED <<kind, cr, nextId, pc, passes, obs, ret, calls, invoked,                    lastAct, external, conns, client, connVars>>

Next ==
    \/ Connect
    \/ Requeue
    \/ Observe
    \/ Create
    \/ Update
    \/ Delete
    \/ Skip
    \/ Finalize
    \/ Disconnect
    \/ NopDisconnect
    \/ RequestDeletion
    \/ EnvAdd
    \/ EnvRemove
    \/ EnvDrift

Spec == Init /\ [][Next]_vars

\* ------------------------------------------- two passes, one connector
\* The controller owns one connector; the passes of two records of its kind
\* run concurrently and each calls Connect and, where Setup registered it,
\* Disconnect on that connector.
ConnPasses == {1, 2}

InitConn ==
    /\ kind \in Kinds
    /\ cr = [kind |-> kind, externalName |-> "",
             forProvider |-> CHOOSE fp \in SpecsOf(kind) : TRUE,
             atProvider |-> ZeroObservation(kind), ready |-> NoCondition, deleted |-> FALSE]
    /\ remote = << >>
    /\ nextId = 0
    /\ env = 0
    /\ pc = "idle"
    /\ passes = 0
    /\ obs = NoObservation
    /\ ret = NoReturn
    /\ calls = << >>
    /\ invoked = << >>
    /\ touched = FALSE
    /\ lastAct = NoAct
    /\ external = 0
    /\ conns = << >>
    /\ client = 0
    /\ cpc = [p \in ConnPasses |-> "idle"]
    /\ cclient = [p \in ConnPasses |-> 0]
    /\ cret = [pass |-> 0, op |-> "none", err |-> NoErr, closed |-> 0]

ConnConnect(p) ==
    /\ cpc[p] = "idle"
    /\ Len(conns) < MaxConns
    /\ \E failing \in ConnectFailures :
          LET r == connectorConnect(kind, cr, conns, external, failing)
          IN  /\ conns' = r.conns
              /\ external' = r.external
              /\ cclient' = [cclient EXCEPT ![p] = r.client]
              /\ cret' = [pass |-> p, op |-> "Connect", err |-> r.err, closed |-> 0]
              /\ cpc' = [cpc EXCEPT ![p] = IF r.err = NoErr THEN "connected" ELSE "idle"]
    /\ UNCHANGED recordVars

ConnDisconnect(p) ==
    /\ cpc[p] = "connected"
    /\ disconnects(kind)
    /\ LET r == connectorDisconnect(conns, external)
       IN  /\ conns' = r.conns
           /\ cret' = [pass |-> p, op |-> "Disconnect", err |-> r.err, closed |-> r.closed]
    /\ cpc' = [cpc EXCEPT ![p] = "idle"]
    /\ UNCHANGED <<recordVars, external, cclient>>

ConnNopDisconnect(p) ==
    /\ cpc[p] = "connected"
    /\ ~disconnects(kind)
    /\ cret' = [pass |-> p, op |-> "NopDisconnect", err |-> NoErr, closed |-> 0]
    /\ cpc' = [cpc EXCEPT ![p] = "idle"]
    /\ UNCHANGED <<recordVars, external, conns, cclient>>

NextConn ==
    \/ \E p \in ConnPasses : ConnConnect(p)
    \/ \E p \in ConnPasses : ConnDisconnect(p)
    \/ \E p \in ConnPasses : ConnNopDisconnect(p)

SpecConn == InitConn /\ [][NextConn]_vars

\* ------------------------------------------ the handlers called directly
\* The connector and the external client are exported interfaces: SpecOps
\* calls their methods one at a time, in any order, on a record of either
\* kind in any condition, against a remote service that holds the resource
\* or does not.  invoked is the sequence of methods called, calls what the
\* last one called (for Connect, its steps), ret what it returned.
MaxOps == 2

\* The records of kind rk a handler may be handed.
OpsRecords(rk) ==
    {[kind |-> rk, externalName |-> xn,
      forProvider |-> IF rk = "Cluster" THEN DefaultClusterParameters
                      ELSE CHOOSE fp \in InitBundleSpecs : TRUE,
      atProvider |-> ap, ready |-> rc, deleted |-> FALSE] :
        xn \in {"", "prod"},
        ap \in {ZeroObservation(rk),
                generateObservation(rk, foreignEntry(rk, IdOf(1), "prod"))},
        rc \in {NoCondition} \cup
               {Condition(reason, 0) : reason \in {"Available", "Creating", "Deleting"}}}

InitOps ==
    /\ kind \in Kinds
    /\ \E rk \in Kinds : cr \in OpsRecords(rk)
    /\ remote \in {<< >>, <<foreignEntry(kind, IdOf(1), "prod")>>}
    /\ nextId = 1
    /\ env = 0
    /\ pc = "idle"
    /\ passes = 0
    /\ obs = NoObservation
    /\ ret = NoReturn
    /\ calls = << >>
    /\ invoked = << >>
    /\ touched = FALSE
    /\ lastAct = NoAct
    /\ external = 0
    /\ conns = << >>
    /\ client = 0
    /\ cpc = << >>
    /\ cclient = << >>
    /\ cret = [pass |-> 0, op |-> "none", err |-> NoErr, closed |-> 0]

OpConnect ==
    /\ Len(invoked) < MaxOps
    /\ \E failing \in ConnectFailures :
          LET r == connectorConnect(kind, cr, conns, external, failing)
          IN  /\ conns' = r.conns
              /\ external' = r.external
              /\ client' = r.client
              /\ calls' = r.steps
              /\ ret' = Return("Connect", r.err, NoDetails)
    /\ invoked' = Append(invoked, "Connect")
    /\ UNCHANGED <<kind, cr, remote, nextId, env, pc, passes, obs, touched, lastAct,
                   connVars>>

OpDisconnect ==
    /\ Len(invoked) < MaxOps
    /\ LET r == connectorDisconnect(conns, external)
       IN  /\ conns' = r.conns
           /\ ret' = Return("Disconnect", r.err, NoDetails)
    /\ calls' = << >>
    /\ invoked' = Append(invoked, "Disconnect")
    /\ UNCHANGED <<kind, cr, remote, nextId, env, pc, passes, obs, touched, lastAct,
                   external, client, connVars>>

OpObserve ==
    /\ Len(invoked) < MaxOps
    /\ \E o \in RpcOutcomes :
          LET r == observe(kind, cr, remote, o, Now)
          IN  /\ cr' = r.cr
              /\ obs' = r.obs
              /\ calls' = r.calls
              /\ ret' = Return("Observe", r.err, NoDetails)
    /\ invoked' = Append(invoked, "Observe")
    /\ UNCHANGED <<kind, remote, nextId, env, pc, passes, touched, lastAct, external,
                   conns, client, connVars>>

OpCreate ==
    /\ Len(invoked) < MaxOps
    /\ \E o \in MutatingOutcomes :
          LET r == create(kind, cr, remote, IdOf(nextId + 1), "prod", o, Now)
          IN  /\ cr' = r.cr
              /\ remote' = r.remote
              /\ calls' = r.calls
              /\ ret' = Return("Create", r.err, r.details)
              /\ nextId' = IF r.remote = remote THEN nextId ELSE nextId + 1
    /\ invoked' = Append(invoked, "Create")
    /\ UNCHANGED <<kind, env, pc, passes, obs, touched, lastAct, external, conns,
                   client, connVars>>

OpUpdate ==
    /\ Len(invoked) < MaxOps
    /\ \E o1 \in RpcOutcomes, o2 \in MutatingOutcomes :
          LET r == update(kind, cr, remote, o1, o2, Now)
          IN  /\ cr' = r.cr
              /\ remote' = r.remote
              /\ calls' = r.calls
              /\ ret' = Return("Update", r.err, NoDetails)
    /\ invoked' = Append(invoked, "Update")
    /\ UNCHANGED <<kind, nextId, env, pc, passes, obs, touched, lastAct, external,
                   conns, client, connVars>>

OpDelete ==
    /\ Len(invoked) < MaxOps
    /\ \E o \in MutatingOutcomes :
          LET r == delete(kind, cr, remote, o, Now)
          IN  /\ cr' = r.cr
              /\ remote' = r.remote
              /\ calls' = r.calls
              /\ ret' = Return("Delete", r.err, NoDetails)
    /\ invoked' = Append(invoked, "Delete")
    /\ UNCHANGED <<kind, nextId, env, pc, passes, obs, touched, lastAct, external,
                   conns, client, connVars>>

NextOps ==
    \/ OpConnect
    \/ OpDisconnect
    \/ OpObserve
    \/ OpCreate
    \/ OpUpdate
    \/ OpDelete

SpecOps == InitOps /\ [][NextOps]_vars

\* ------------------------------------------------- the mapper on its own
\* SpecMap applies the Cluster mapper to every valid parameter set: the
\* parameters are mapped to a create request with no base entry, the remote
\* service echoes the request, and the echo is projected back, to the
\* ObservedState and to the comparison isUpToDate makes.  It also projects
\* entries the mapper did not write, with or without a tolerations
\* configuration.  calls holds the request, remote the entry projected.
DeclaredCollectionMethods == {"UNSET_COLLECTION", "NO_COLLECTION", "KERNEL_MODULE", "EBPF"}

DeclaredClusterTypes ==
    {"GENERIC_CLUSTER", "KUBERNETES_CLUSTER", "OPENSHIFT_CLUSTER", "OPENSHIFT4_CLUSTER"}

ValidClusterParameters ==
    {[DefaultClusterParameters EXCEPT !.CollectionMethod = cm, !.Type = t, !.Labels = l,
                                      !.Tolerations = b, !.SlimCollector = sc] :
        cm \in DeclaredCollectionMethods, t \in DeclaredClusterTypes,
        l \in {NilLabels, EmptyLabels, SomeLabels}, b \in BOOLEAN, sc \in BOOLEAN}

\* Entries of the remote service that this mapper did not write: with and
\* without a tolerations configuration, and with enum codes the name tables
\* hold (3, 2, 2) and codes they do not hold (7, 3, 9).
ForeignClusters ==
    {[foreignEntry("Cluster", IdOf(1), "prod") EXCEPT
          !.TolerationsConfig = t, !.CollectionMethod = cm, !.Type = ty, !.ManagedBy = mb] :
        t \in {NilTolerations, TolerationsConfig(TRUE), TolerationsConfig(FALSE)},
        cm \in {3, 7}, ty \in {2, 3}, mb \in {2, 9}}

InitMap ==
    /\ kind = "Cluster"
    /\ \E p \in ValidClusterParameters :
          cr = [kind |-> "Cluster", externalName |-> p.Name, forProvider |-> p,
                atProvider |-> ZeroObservation("Cluster"), ready |-> NoCondition,
                deleted |-> FALSE]
    /\ remote = << >>
    /\ nextId = 0
    /\ env = 0
    /\ pc = "params"
    /\ passes = 0
    /\ obs = NoObservation
    /\ ret = NoReturn
    /\ calls = << >>
    /\ invoked = << >>
    /\ touched = FALSE
    /\ lastAct = NoAct
    /\ external = 0
    /\ conns = << >>
    /\ client = 0
    /\ cpc = << >>
    /\ cclient = << >>
    /\ cret = [pass |-> 0, op |-> "none", err |-> NoErr, closed |-> 0]

\* generateCluster with a nil base, and the echo of the remote service.
MapRequest ==
    /\ pc = "params"
    /\ LET req == generateCluster(cr.forProvider, ZeroCluster)
       IN  /\ calls' = <<Call("PostCluster", req, NoErr)>>
           /\ remote' = <<postCluster(req, IdOf(1), req.Name)>>
    /\ pc' = "requested"
    /\ UNCHANGED <<kind, cr, nextId, env, passes, obs, ret, invoked, touched, lastAct,
                   external, conns, client, connVars>>

\* An entry this mapper did not write is what the remote service lists.
MapForeign ==
    /\ pc = "params"
    /\ remote' \in {<<e>> : e \in ForeignClusters}
    /\ pc' = "requested"
    /\ UNCHANGED <<kind, cr, nextId, env, passes, obs, ret, calls, invoked, touched,
                   lastAct, external, conns, client, connVars>>

\* Observe lists the entry and matches it: generateObservation and
\* isUpToDate on the entry.
MapBack ==
    /\ pc = "requested"
    /\ LET r == observe(kind, cr, remote, "ok", Now)
       IN  /\ cr' = r.cr
           /\ obs' = r.obs
           /\ ret' = Return("Observe", r.err, NoDetails)
    /\ pc' = "projected"
    /\ UNCHANGED <<kind, remote, nextId, env, passes, calls, invoked, touched,
                   lastAct, external, conns, client, connVars>>

NextMap ==
    \/ MapRequest
    \/ MapForeign
    \/ MapBack

SpecMap == InitMap /\ [][NextMap]_vars

\* ------------------------------------------------- passes without end
\* The driver runs pass after pass on one record whose deletion nobody asks
\* for.  Calls fail, responses get lost, the service stores a resource under
\* another name than asked and somebody else changes the collection, MaxFaults
\* times in all (env counts them); after that every call succeeds and nobody
\* else touches the collection.  The connections of the passes and the last
\* act are left out here (conns and lastAct stay as they are).  Time is counted from the start of the pass
\* under way: Now is the number of handlers the pass has called, plus one,
\* and the end of a pass moves the transition time of the stored condition
\* to 0, before every time the next pass reads.
MaxFaults == 2

\* An identifier the remote service has not handed out: none of the
\* collection's, and not the one the record remembers.
FreshId(items, c) ==
    IdOf(CHOOSE n \in 1..(Len(items) + 2) :
            /\ ~hasId(items, IdOf(n)) /\ c.atProvider.ID # IdOf(n)
            /\ \A m \in 1..(n - 1) : hasId(items, IdOf(m)) \/ c.atProvider.ID = IdOf(m))

\* What one more fault leaves of the budget.
Faults(faulty) == IF faulty THEN env + 1 ELSE env

LiveConnect ==
    /\ pc = "idle"
    /\ \E failing \in ConnectFailures :
          \E r \in {connectorConnect(kind, cr, << >>, 0, failing)} :
              /\ r.err = NoErr \/ env < MaxFaults
              /\ ret' = Return("Connect", r.err, NoDetails)
              /\ pc' = IF r.err = NoErr THEN "connected" ELSE "idle"
              /\ env' = Faults(r.err # NoErr)
    /\ UNCHANGED <<kind, cr, remote, nextId, passes, obs, calls, invoked, touched,
                   lastAct, external, conns, client, connVars>>

LiveObserve ==
    /\ pc = "connected"
    /\ \E o \in RpcOutcomes :
          \E r \in {observe(kind, cr, remote, o, Now)} :
              /\ o = "ok" \/ env < MaxFaults
              /\ cr' = r.cr
              /\ obs' = r.obs
              /\ ret' = Return("Observe", r.err, NoDetails)
              /\ calls' = calls \o r.calls
              /\ pc' = IF r.err = NoErr THEN "observed" ELSE "acted"
              /\ env' = Faults(o # "ok")
    /\ invoked' = Append(invoked, "Observe")
    /\ UNCHANGED <<kind, remote, nextId, passes, touched, lastAct, external, conns,
                   client, connVars>>

LiveCreate ==
    /\ pc = "observed"
    /\ driverNext(cr, obs) = "Create"
    /\ \E o \in MutatingOutcomes, name \in Names :
          \E r \in {create(kind, cr, remote, FreshId(remote, cr), name, o, Now)},
             faulty \in {o # "ok" \/ name # createRequest(kind, cr).Name} :
              /\ ~faulty \/ env < MaxFaults
              /\ cr' = r.cr
              /\ remote' = r.remote
              /\ ret' = Return("Create", r.err, r.details)
              /\ calls' = calls \o r.calls
              /\ env' = Faults(faulty)
    /\ invoked' = Append(invoked, "Create")
    /\ pc' = "acted"
    /\ UNCHANGED <<kind, nextId, passes, obs, touched, lastAct, external, conns,
                   client, connVars>>

LiveUpdate ==
    /\ pc = "observed"
    /\ driverNext(cr, obs) = "Update"
    /\ \E o1 \in RpcOutcomes, o2 \in MutatingOutcomes :
          \E r \in {update(kind, cr, remote, o1, o2, Now)},
             faulty \in {o1 # "ok" \/ o2 # "ok"} :
              /\ ~faulty \/ env < MaxFaults
              /\ cr' = r.cr
              /\ remote' = r.remote
              /\ ret' = Return("Update", r.err, NoDetails)
              /\ calls' = calls \o r.calls
              /\ env' = Faults(faulty)
    /\ invoked' = Append(invoked, "Update")
    /\ pc' = "acted"
    /\ UNCHANGED <<kind, nextId, passes, obs, touched, lastAct, external, conns,
                   client, connVars>>

\* The resource is up to date: the driver invokes nothing more.
LiveSkip ==
    /\ pc = "observed"
    /\ driverNext(cr, obs) = "None"
    /\ ret' = Return("None", NoErr, NoDetails)
    /\ pc' = "acted"
    /\ UNCHANGED <<kind, cr, remote, nextId, env, passes, obs, calls, invoked,
                   touched, lastAct, external, conns, client, connVars>>

\* The pass returns and what it logged ends with it.
LiveEnd ==
    /\ pc = "acted"
    /\ pc' = "idle"
    /\ cr' = [cr EXCEPT !.ready.at = 0]
    /\ obs' = NoObservation
    /\ ret' = NoReturn
    /\ calls' = << >>
    /\ invoked' = << >>
    /\ UNCHANGED <<kind, remote, nextId, env, passes, touched, lastAct, external,
                   conns, client, connVars>>

\* Somebody else registers, removes or changes a resource.
LiveEnvAdd ==
    /\ env < MaxFaults
    /\ pc \in EnvPoints
    /\ \E name \in Names, i \in 1..(Len(remote) + 1) :
          remote' = insertAt(remote, i, foreignEntry(kind, FreshId(remote, cr), name))
    /\ env' = env + 1
    /\ UNCHANGED <<kind, cr, nextId, pc, passes, obs, ret, calls, invoked, touched,
                   lastAct, external, conns, client, connVars>>

LiveEnvRemove ==
    /\ env < MaxFaults
    /\ pc \in EnvPoints
    /\ \E i \in 1..Len(remote) : remote' = removeAt(remote, i)
    /\ env' = env + 1
    /\ UNCHANGED <<kind, cr, nextId, pc, passes, obs, ret, calls, invoked, touched,
                   lastAct, external, conns, client, connVars>>

LiveEnvDrift ==
    /\ env < MaxFaults
    /\ pc \in EnvPoints
    /\ \E i \in 1..Len(remote), d \in Drifts(kind) :
          /\ drift(remote[i], d) # remote[i]
          /\ remote' = [remote EXCEPT ![i] = drift(remote[i], d)]
    /\ env' = env + 1
    /\ UNCHANGED <<kind, cr, nextId, pc, passes, obs, ret, calls, invoked, touched,
                   lastAct, external, conns, client, connVars>>

NextLive ==
    \/ LiveConnect
    \/ LiveObserve
    \/ LiveCreate
    \/ LiveUpdate
    \/ LiveSkip
    \/ LiveEnd
    \/ LiveEnvAdd
    \/ LiveEnvRemove
    \/ LiveEnvDrift

\* What a step of the driver does to pc, but for a Connect that fails
\* (which leaves the pass where it was): in every state one such step can be
\* taken, a Connect, an Observe, a Create, an Update or a Skip without
\* fault, or the end of the pass.
PassAdvances ==
    \/ pc = "idle" /\ pc' = "connected"
    \/ pc = "connected" /\ pc' \in {"observed", "acted"}
    \/ pc = "observed" /\ pc' = "acted"
    \/ pc = "acted" /\ pc' = "idle"

\* The driver requeues the record after every pass and a handler it calls
\* returns, so a pass that can advance does: the steps of NextLive that
\* change pc are the driver's, and the Connects that fail are MaxFaults at
\* most, so this is weak fairness of the driver's steps.
SpecLive == Init /\ [][NextLive]_vars /\ WF_pc(PassAdvances)

\* ------------------------------------------------------------- the claims
\* What the claims read off the state.
Matches == {i \in 1..Len(remote) : remote[i].Name = cr.externalName}

\* The entry Observe matched, while the collection is as Observe listed it.
Matched == remote[CHOOSE i \in Matches : \A j \in Matches : i <= j]

CallsOf(rpcs) == {i \in 1..Len(calls) : calls[i].rpc \in rpcs}

\* The collection in another order.
Reordered(items, f) == [i \in 1..Len(items) |-> items[f[i]]]

\* The step in which Observe returns without an error.
ObserveReturns == pc = "connected" /\ pc' = "observed"

\* C1: once a pass has ended, no connection opened by that pass is still
\* open (between two passes every connection opened so far is closed).
C1_PassClosesItsConnection ==
    pc \in {"idle", "gone"} => \A c \in 1..Len(conns) : conns[c] = "closed"

\* C2: with two passes running concurrently through the one connector, a
\* pass that is still connected has its connection open, a Disconnect
\* closes the connection of the pass that called it, and no connection of
\* a pass that has returned stays open.
C2_DisconnectClosesOwnConnection ==
    /\ \A p \in ConnPasses : cpc[p] = "connected" => conns[cclient[p]] = "open"
    /\ cret.op = "Disconnect" => cret.closed = cclient[cret.pass]
    /\ disconnects(kind) =>
          \A c \in 1..Len(conns) :
              conns[c] = "open" => \E p \in ConnPasses : cpc[p] = "connected" /\ cclient[p] = c

\* C3: every Disconnect returns success, whether it found the connection
\* open (and closed it), never opened, or closed by an earlier Disconnect.
C3_DisconnectSucceeds ==
    cret.op = "Disconnect" =>
        /\ cret.err = NoErr
        /\ external # 0 => conns[external] = "closed"

\* C4: when the list call succeeds, Observe returns no error and reports
\* exists=false exactly when no entry of the collection is named as the
\* record's external name; the report is the same for every order of the
\* collection.
C4_ExistsIffNamed ==
    (pc = "observed" /\ ~touched) =>
        /\ ret.err = NoErr
        /\ obs.reported
        /\ obs.ResourceExists = (\E i \in 1..Len(remote) : remote[i].Name = cr.externalName)
        /\ \A f \in Permutations(1..Len(remote)) :
              observe(kind, cr, Reordered(remote, f), "ok", Now).obs.ResourceExists
                  = obs.ResourceExists

C4_Witness ==
    /\ pc = "observed" /\ ~touched
    /\ Len(remote) = 2
    /\ remote[1].Name # cr.externalName
    /\ remote[2].Name = cr.externalName
    /\ obs.ResourceExists

\* C5: when the list call of Observe fails, Observe returns ObserveFailed
\* wrapping the call's error and reports nothing (never exists=false), and
\* the pass issues no create call and invokes no Create.
C5_ListFailureIsObserveFailed ==
    (calls # << >> /\ calls[1].err # NoErr) =>
        /\ ~obs.reported
        /\ ret.op = "Observe"
        /\ Head(ret.err) = errObserveFailed(kind)
        /\ SubSeq(ret.err, Len(ret.err) - Len(calls[1].err) + 1, Len(ret.err)) = calls[1].err
        /\ CallsOf({createRpc(kind)}) = {}
        /\ invoked = <<"Observe">>

C5_Witness ==
    /\ pc = "acted"
    /\ calls # << >> /\ calls[1].err # NoErr
    /\ ret.op = "Observe"

\* C6: on a match Observe reports upToDate=true exactly when every desired
\* parameter equals the parameter projected from the matched entry, a nil
\* and an empty Labels map counting as equal; the diff is empty exactly
\* when upToDate is true; when only CollectorImage differs the report is
\* exists=true, upToDate=false and the diff names CollectorImage.
C6_UpToDateIffNoDifference ==
    (pc = "observed" /\ ~touched /\ obs.ResourceExists) =>
        LET desired == cr.forProvider
            projected == IF kind = "Cluster" THEN observedClusterParams(Matched)
                         ELSE [Name |-> Matched.Name]
            same(f) == IF f = "Labels"
                       THEN \/ desired[f] = projected[f]
                            \/ (desired[f].kv = {} /\ projected[f].kv = {})
                       ELSE desired[f] = projected[f]
            others == (DOMAIN desired) \ {"CollectorImage"}
        IN  /\ obs.ResourceUpToDate = (\A f \in DOMAIN desired : same(f))
            /\ (obs.Diff.text = "") = obs.ResourceUpToDate
            /\ (obs.Diff.fields = {}) = obs.ResourceUpToDate
            /\ (kind = "Cluster" /\ (\A f \in others : same(f)) /\ ~same("CollectorImage")) =>
                  (~obs.ResourceUpToDate /\ "CollectorImage" \in obs.Diff.fields)

C6_Witness ==
    /\ pc = "observed" /\ ~touched
    /\ kind = "Cluster"
    /\ obs.ResourceExists /\ ~obs.ResourceUpToDate
    /\ obs.Diff.fields = {"CollectorImage"}

\* C7: when Create returns success the record's external name is the name
\* the remote service gave the created resource and its ObservedState is
\* the projection of that resource (Type KUBERNETES_CLUSTER for a Cluster
\* declared so); the Observe of a later pass, the remote not having changed
\* since, reports exists=true.
C7_CreateLinksRecord ==
    /\ []((pc = "acted" /\ ret.op = "Create" /\ ret.err = NoErr) =>
            LET it == remote[Len(remote)]
            IN  /\ cr.externalName = it.Name
                /\ cr.atProvider = generateObservation(kind, it)
                /\ cr.atProvider.ID = it.Id
                /\ cr.atProvider.Name = it.Name
                /\ (kind = "Cluster" /\ cr.forProvider.Type = "KUBERNETES_CLUSTER") =>
                      cr.atProvider.Type = "KUBERNETES_CLUSTER")
    /\ [][(ObserveReturns /\ lastAct = [op |-> "Create", err |-> NoErr] /\ ~touched) =>
             obs'.ResourceExists]_vars

C7_Witness ==
    /\ pc = "observed"
    /\ passes >= 1 /\ env = 0
    /\ lastAct = [op |-> "Create", err |-> NoErr]
    /\ cr.externalName # cr.forProvider.Name
    /\ obs.ResourceExists

\* C8: when the create call fails, Create returns CreateFailed wrapping the
\* call's error and leaves the external name and the ObservedState as they
\* were; the Observe of the next pass, the remote being as the failed pass
\* observed it, reports exists=false and the driver turns to Create again.
C8_FailedCreateLeavesUnlinked ==
    /\ [][(pc = "observed" /\ ret'.op = "Create" /\ ret'.err # NoErr) =>
             /\ cr'.externalName = cr.externalName
             /\ cr'.atProvider = cr.atProvider
             /\ Head(ret'.err) = errCreateFailed(kind)
             /\ ret'.err[Len(ret'.err)] = ErrRPC]_vars
    /\ [][(ObserveReturns /\ lastAct.op = "Create" /\ lastAct.err # NoErr /\ ~touched) =>
             /\ obs'.reported
             /\ ~obs'.ResourceExists
             /\ ~cr.deleted => driverNext(cr', obs') = "Create"]_vars

C8_Witness ==
    /\ pc = "observed"
    /\ passes >= 1 /\ env = 0 /\ nextId = 0
    /\ lastAct.op = "Create" /\ lastAct.err # NoErr
    /\ obs.reported /\ ~obs.ResourceExists
    /\ driverNext(cr, obs) = "Create"

\* C9: in every pass Observe comes first and at most one of Create, Update,
\* Delete follows it; a create call is issued only after this pass's
\* Observe reported exists=false, Update runs (and a replace call is issued)
\* only after it reported exists=true and upToDate=false, nothing mutating
\* is issued after it reported exists=true and upToDate=true with no
\* deletion requested, and a pass issues at most one mutating call.
C9_ActFollowsObservation ==
    LET mutating == CallsOf(MutatingRpcs)
        acts == {i \in 1..Len(invoked) : invoked[i] \in {"Create", "Update", "Delete"}}
    IN  /\ invoked # << >> => invoked[1] = "Observe"
        /\ Cardinality(acts) <= 1
        /\ \A i \in 1..Len(invoked) : i > 1 => invoked[i] # "Observe"
        /\ Cardinality(mutating) <= 1
        /\ (mutating # {} \/ acts # {}) => obs.reported
        /\ ("Create" \in {invoked[i] : i \in acts} \/ CallsOf({createRpc(kind)}) # {}) =>
              ~obs.ResourceExists
        /\ ("Update" \in {invoked[i] : i \in acts} \/ CallsOf({"PutCluster"}) # {}) =>
              (obs.ResourceExists /\ ~obs.ResourceUpToDate)
        /\ (obs.ResourceExists /\ obs.ResourceUpToDate /\ ~cr.deleted) =>
              (mutating = {} /\ acts = {})

C9_Witness ==
    /\ pc = "acted"
    /\ invoked = <<"Observe", "Update">>
    /\ CallsOf(MutatingRpcs) # {}
    /\ kind = "InitBundle"

\* C10: Cluster Update issues at most one replace request, and one when
\* the collection it lists holds an entry named as the external name; the
\* request carries the desired value in every declared field and the
\* fetched entry's value in every other field (identifier, managed-by,
\* most recent sensor, and the rest).
C10_ReplaceKeepsRemoteOnlyFields ==
    [][(pc = "observed" /\ kind = "Cluster" /\ ret'.op = "Update") =>
          LET issued == (Len(calls) + 1)..Len(calls')
              puts == {i \in issued : calls'[i].rpc = "PutCluster"}
              listed == \E i \in issued :
                            calls'[i].rpc = "GetClusters" /\ calls'[i].err = NoErr
              p == cr.forProvider
          IN  /\ Cardinality(puts) = IF listed /\ Matches # {} THEN 1 ELSE 0
              /\ \A i \in puts :
                    LET req == calls'[i].arg
                    IN  /\ req.AdmissionController = p.AdmissionController
                        /\ req.AdmissionControllerEvents = p.AdmissionControllerEvents
                        /\ req.AdmissionControllerUpdates = p.AdmissionControllerUpdates
                        /\ req.CentralApiEndpoint = p.CentralAPIEndpoint
                        /\ NameOf(CollectionMethod_name, req.CollectionMethod) = p.CollectionMethod
                        /\ req.CollectorImage = p.CollectorImage
                        /\ req.Labels = p.Labels
                        /\ req.MainImage = p.MainImage
                        /\ req.Name = p.Name
                        /\ req.SlimCollector = p.SlimCollector
                        /\ ~req.TolerationsConfig.isNil
                        /\ req.TolerationsConfig.Disabled = ~p.Tolerations
                        /\ NameOf(ClusterType_name, req.Type) = p.Type
                        /\ req.Id = Matched.Id
                        /\ req.ManagedBy = Matched.ManagedBy
                        /\ req.MostRecentSensorId = Matched.MostRecentSensorId
                        /\ req.Other = Matched.Other]_vars

C10_Witness ==
    /\ pc = "acted" /\ kind = "Cluster" /\ ret.op = "Update" /\ ret.err = NoErr
    /\ \E i \in CallsOf({"PutCluster"}) :
          /\ calls[i].arg.ManagedBy = 2
          /\ calls[i].arg.Other = "health:ok"
          /\ ~calls[i].arg.MostRecentSensorId.isNil
          /\ calls[i].arg.CollectorImage = cr.forProvider.CollectorImage

\* The calls the step under way adds to the pass's log.
Issued == (Len(calls) + 1)..Len(calls')

\* C11: Update of the InitBundle kind always returns success (no
\* DeleteFailed in what it returns), issues one revoke, of the bundle
\* Observe recorded, and no create call; the Observe of the next pass, the
\* remote not having changed since, reports exists=false and the driver
\* turns to Create.
C11_InitBundleUpdateRevokes ==
    /\ [][(pc = "observed" /\ kind = "InitBundle" /\ ret'.op = "Update") =>
             /\ ret'.err = NoErr
             /\ Cardinality(Issued) = 1
             /\ \A i \in Issued :
                   /\ calls'[i].rpc = "RevokeInitBundle"
                   /\ calls'[i].arg = cr.atProvider.ID]_vars
    /\ [][(ObserveReturns /\ kind = "InitBundle" /\ lastAct.op = "Update" /\ ~touched) =>
             /\ ~obs'.ResourceExists
             /\ ~cr.deleted => driverNext(cr', obs') = "Create"]_vars

\* The step in which the handler op is called directly.
Called(op) == invoked' = Append(invoked, op)

\* C12: Update of the InitBundle kind, invoked on a record whose readiness
\* condition is Creating or Deleting, issues no remote call, changes
\* nothing on the record and returns success.
C12_UpdateWaitsWhileInFlight ==
    [][(Called("Update") /\ kind = "InitBundle" /\ cr.kind = "InitBundle"
          /\ cr.ready.reason \in {"Creating", "Deleting"}) =>
          /\ calls' = << >>
          /\ cr' = cr
          /\ remote' = remote
          /\ ret'.err = NoErr]_vars

\* The remote service answered the delete call of the step with not-found.
AnsweredNotFound ==
    \E i \in 1..Len(calls') :
        calls'[i].rpc = deleteRpc(kind) /\ calls'[i].err = NewErr(ErrRPCNotFound)

\* C13: Delete returns success when the remote service answers its call
\* with not-found, so a Delete that follows a successful Delete of the same
\* identifier succeeds too; any other error of the call is returned as
\* DeleteFailed.
C13_DeleteIsIdempotent ==
    [][(Called("Delete") /\ cr.kind = kind) =>
          /\ AnsweredNotFound => ret'.err = NoErr
          /\ (invoked # << >> /\ invoked[Len(invoked)] = "Delete" /\ ret.err = NoErr) =>
                ret'.err = NoErr \/ ret'.err[Len(ret'.err)] = ErrRPC
          /\ ret'.err # NoErr => Head(ret'.err) = errDeleteFailed(kind)]_vars

\* The delete and revoke calls the step under way issues.
IssuedDeletes == {i \in Issued : calls'[i].rpc = deleteRpc(kind)}

\* C14: the ObservedState's ID is set by Observe to the identifier of the
\* entry it matched, stays so until the pass acts, and is what every delete
\* or revoke call of Delete and of InitBundle Update carries: never the
\* empty identifier, and not the external name.
C14_DeleteByObservedIdentifier ==
    /\ [][(ObserveReturns /\ obs'.ResourceExists) =>
             (cr'.atProvider.ID = Matched.Id /\ cr'.atProvider.ID # "")]_vars
    /\ [][(pc = "observed" /\ pc' = "observed") => cr'.atProvider = cr.atProvider]_vars
    /\ [][(pc = "observed" /\ ret'.op \in {"Delete", "Update"}) =>
             \A i \in IssuedDeletes :
                 /\ calls'[i].arg = cr.atProvider.ID
                 /\ calls'[i].arg # ""
                 /\ calls'[i].arg # cr.externalName
                 /\ ~touched => calls'[i].arg = Matched.Id]_vars

C14_Witness ==
    /\ pc = "acted" /\ ret.op = "Delete" /\ ret.err = NoErr
    /\ \E i \in CallsOf({deleteRpc(kind)}) : calls[i].arg = cr.atProvider.ID
    /\ remote # << >>
    /\ cr.atProvider.ID # remote[1].Id

\* C15: when Observe, Create, Update or Delete returns an error, the
\* record's ObservedState and external name are as they were before the
\* operation; of the record only the readiness condition may have changed.
C15_FailedOperationKeepsStatus ==
    [][(Len(invoked') = Len(invoked) + 1 /\ ret'.err # NoErr) =>
          /\ ret'.op \in {"Observe", "Create", "Update", "Delete"}
          /\ cr'.atProvider = cr.atProvider
          /\ cr'.externalName = cr.externalName
          /\ cr' = [cr EXCEPT !.ready = cr'.ready]]_vars

C15_Witness ==
    /\ pc = "acted" /\ kind = "Cluster"
    /\ ret.op = "Update" /\ ret.err # NoErr
    /\ \E i \in CallsOf({"PutCluster"}) : calls[i].err # NoErr
    /\ cr.atProvider.ID # ""
    /\ cr.atProvider.CollectorImage # cr.forProvider.CollectorImage

\* C16: every error Update returns is UpdateFailed wrapping the error of
\* the call that failed (the list call or the replace call of the Cluster
\* kind, the revoke call of the InitBundle kind), never the error kind of
\* another operation.
C16_UpdateErrorsAreUpdateFailed ==
    [][(Len(invoked') = Len(invoked) + 1 /\ ret'.op = "Update" /\ ret'.err # NoErr) =>
          /\ Head(ret'.err) = errUpdateFailed(kind)
          /\ ret'.err[Len(ret'.err)] = ErrRPC]_vars

\* C17: Connect, Observe, Create, Update or Delete of one kind, handed a
\* record of the other kind, returns that kind's NotThisKind error and
\* nothing else happens: no call, no connection opened, the record and the
\* remote as they were.
C17_WrongKindIsRefused ==
    [][(Len(invoked') = Len(invoked) + 1 /\ cr.kind # kind /\ ~Called("Disconnect")) =>
          /\ ret'.err = <<IF kind = "Cluster" THEN errNotCluster ELSE errNotInitBundle>>
          /\ calls' = << >>
          /\ conns' = conns
          /\ external' = external
          /\ cr' = cr
          /\ remote' = remote]_vars

C17_Witness ==
    /\ cr.kind = "Cluster" /\ kind = "InitBundle"
    /\ invoked = <<"Connect", "Delete">>
    /\ ret.op = "Delete" /\ ret.err = <<errNotInitBundle>>
    /\ cr.ready.reason = "Available"
    /\ remote # << >>
    /\ conns = << >>

\* C18: Connect takes its steps in order (track the usage, get the
\* provider configuration, extract the credential, open the connection),
\* each only after those before it succeeded in the same call, and returns
\* at the first that fails with that step's error wrapping the cause; a
\* failed Connect returns no client and leaves no connection open, a
\* successful one has taken every step and opened one connection.
C18_ConnectStopsAtFirstFailure ==
    [][(Called("Connect") /\ cr.kind = kind) =>
          LET n == Len(calls')
              order == <<"Track", "GetProviderConfig", "ExtractCredentials", "NewGRPC">>
              kinds == <<errTrackPCUsage, errGetPC, errGetCreds, ErrNewClient>>
          IN  /\ n \in 1..4
              /\ \A i \in 1..n : calls'[i].rpc = order[i]
              /\ \A i \in 1..(n - 1) : calls'[i].err = NoErr
              /\ ret'.err = NoErr =>
                    /\ n = 4 /\ calls'[n].err = NoErr
                    /\ conns' = Append(conns, "open")
                    /\ client' = Len(conns') /\ external' = client'
              /\ ret'.err # NoErr =>
                    /\ calls'[n].err # NoErr
                    /\ ret'.err = <<kinds[n]>> \o calls'[n].err
                    /\ client' = 0
                    /\ conns' = conns
                    /\ external' = external]_vars

C18_Witness ==
    /\ invoked = <<"Connect">> /\ cr.kind = kind
    /\ Len(calls) = 3
    /\ calls[2].rpc = "GetProviderConfig" /\ calls[2].err = NoErr
    /\ calls[3].rpc = "ExtractCredentials" /\ calls[3].err # NoErr
    /\ Head(ret.err) = errGetCreds
    /\ conns = << >> /\ client = 0

\* C19: for every valid parameter set P, the request generateCluster builds
\* from P with no base, echoed by the remote service, is reported up to
\* date with an empty diff: every parameter projected back from it equals
\* P's, the enum names included, a nil and an empty Labels map being equal.
C19_MappingRoundTrip ==
    /\ (pc = "projected" /\ calls # << >>) =>
          LET p == cr.forProvider
              back == observedClusterParams(remote[1])
          IN  /\ obs.ResourceUpToDate
              /\ obs.Diff = NoDiff
              /\ back.CollectionMethod = p.CollectionMethod
              /\ back.Type = p.Type
              /\ back.Labels.kv = p.Labels.kv
              /\ [back EXCEPT !.Labels = p.Labels] = p
    /\ \A p \in ValidClusterParameters :
          isUpToDateCluster(p, generateCluster(p, ZeroCluster)).diff = NoDiff

C19_Witness ==
    /\ pc = "projected" /\ calls # << >>
    /\ cr.forProvider.Type = "OPENSHIFT4_CLUSTER"
    /\ cr.forProvider.CollectionMethod = "KERNEL_MODULE"
    /\ cr.forProvider.Labels = EmptyLabels
    /\ remote[1].Labels = NilLabels
    /\ remote[1].Type = 5
    /\ obs.ResourceUpToDate

\* C20: for both values b of Tolerations the request carries a tolerations
\* configuration whose Disabled flag is not b, and the entry that echoes it
\* maps back to Tolerations = b, in the ObservedState and in the parameters
\* isUpToDate compares; an entry without a tolerations configuration maps
\* to Tolerations = true.
C20_TolerationsNegatedBothWays ==
    /\ (pc \in {"requested", "projected"} /\ calls # << >>) =>
          /\ ~calls[1].arg.TolerationsConfig.isNil
          /\ calls[1].arg.TolerationsConfig.Disabled = ~cr.forProvider.Tolerations
    /\ (pc = "projected" /\ calls # << >>) =>
          /\ cr.atProvider.Tolerations = cr.forProvider.Tolerations
          /\ observedClusterParams(remote[1]).Tolerations = cr.forProvider.Tolerations
    /\ (pc = "projected" /\ remote[1].TolerationsConfig.isNil) =>
          /\ cr.atProvider.Tolerations = TRUE
          /\ observedClusterParams(remote[1]).Tolerations = TRUE
    /\ (pc = "projected" /\ ~remote[1].TolerationsConfig.isNil) =>
          cr.atProvider.Tolerations = ~remote[1].TolerationsConfig.Disabled

C20_Witness ==
    /\ pc = "projected" /\ calls # << >>
    /\ ~cr.forProvider.Tolerations
    /\ calls[1].arg.TolerationsConfig.Disabled
    /\ ~cr.atProvider.Tolerations

\* C21: when the matched Cluster entry carries a collection method, cluster
\* type or managed-by code that the name table does not hold, Observe
\* returns no error and projects the field as the empty name; for the
\* collection method and the cluster type the diff then names the field,
\* whatever declared name is desired, and Observe reports exists=true,
\* upToDate=false.
C21_UnknownCodeIsEmptyName ==
    pc = "projected" =>
        LET it == remote[1]
            unknownMethod == it.CollectionMethod \notin {0, 1, 2, 3}
            unknownType == it.Type \notin {0, 1, 2, 5}
            unknownManager == it.ManagedBy \notin {0, 1, 2, 3}
        IN  /\ ret.err = NoErr
            /\ obs.reported /\ obs.ResourceExists
            /\ unknownMethod =>
                  /\ cr.atProvider.CollectionMethod = ""
                  /\ ~obs.ResourceUpToDate
                  /\ "CollectionMethod" \in obs.Diff.fields
            /\ unknownType =>
                  /\ cr.atProvider.Type = ""
                  /\ ~obs.ResourceUpToDate
                  /\ "Type" \in obs.Diff.fields
            /\ unknownManager => cr.atProvider.ManagedBy = ""

C21_Witness ==
    /\ pc = "projected"
    /\ remote[1].Type = 3 /\ remote[1].CollectionMethod = 3 /\ remote[1].ManagedBy = 9
    /\ cr.forProvider.Type = "GENERIC_CLUSTER"
    /\ cr.atProvider.Type = "" /\ cr.atProvider.ManagedBy = ""
    /\ cr.atProvider.CollectionMethod = "EBPF"
    /\ obs.ResourceExists /\ ~obs.ResourceUpToDate

\* The keys of a set of connection details, and the values.
KeysOf(details) == {d[1] : d \in details}

ValuesOf(details) == {d[2] : d \in details}

\* C22: a successful Create of the InitBundle kind returns the two bundles
\* of the service's response as connection details, under the keys
\* helmValuesBundle and kubectlBundle and nowhere else: the ObservedState it
\* writes is the projection of the bundle's metadata and none of its text
\* fields holds a bundle.  A failed Create of the InitBundle kind and every
\* Create of the Cluster kind return no connection details.
C22_BundlesOnlyAsConnectionDetails ==
    [][Called("Create") =>
          IF kind = "InitBundle" /\ ret'.err = NoErr
          THEN LET meta == remote'[Len(remote')]
               IN  /\ ret'.details = {<<"helmValuesBundle", "helm-values-of-" \o meta.Id>>,
                                      <<"kubectlBundle", "kubectl-of-" \o meta.Id>>}
                   /\ cr'.atProvider = generateObservation("InitBundle", meta)
                   /\ DOMAIN meta = DOMAIN generateInitBundle("", "")
                   /\ {cr'.atProvider.ID, cr'.atProvider.Name,
                       cr'.atProvider.CreatedBy.ID,
                       cr'.atProvider.CreatedBy.AuthProviderID}
                          \cap ValuesOf(ret'.details) = {}
          ELSE ret'.details = NoDetails]_vars

C22_Witness ==
    /\ kind = "InitBundle" /\ cr.kind = "InitBundle"
    /\ invoked # << >> /\ invoked[Len(invoked)] = "Create"
    /\ ret.op = "Create" /\ ret.err = NoErr
    /\ KeysOf(ret.details) = {"helmValuesBundle", "kubectlBundle"}
    /\ Len(remote) = 2 /\ cr.atProvider.ID = remote[2].Id
    /\ cr.ready.reason = "Creating"

\* C23: the record carries an ObservedState only while the remote resource
\* exists: once Observe has reported exists=false, the ObservedState of the
\* record is absent (the zero observation), not the snapshot of an earlier
\* pass.
C23_AbsentResourceHasNoObservedState ==
    (pc = "observed" /\ obs.reported /\ ~obs.ResourceExists) =>
        cr.atProvider = ZeroObservation(kind)

\* The statuses an earlier pass may have left on a record of kind k.
StatusesOf(k) ==
    {[atProvider |-> ap, ready |-> rc] :
        ap \in {ZeroObservation(k),
                generateObservation(k, foreignEntry(k, IdOf(1), "prod")),
                generateObservation(k, foreignEntry(k, IdOf(2), "dev"))},
        rc \in {NoCondition} \cup
               {Condition(reason, 0) : reason \in {"Available", "Creating", "Deleting"}}}

\* C24: what Observe returns (the error, exists, upToDate, the diff) and the
\* ObservedState it writes on a match are the same for every record with the
\* external name and the desired parameters of this one, whatever status an
\* earlier pass left on it, the collection fetched being the same.
C24_ObserveReadsNoStatus ==
    [][(Called("Observe") /\ cr.kind = kind) =>
          \A s \in StatusesOf(kind) :
              LET other == [cr EXCEPT !.atProvider = s.atProvider, !.ready = s.ready]
                  r == observe(kind, other, remote,
                               IF ret'.err = NoErr THEN "ok" ELSE "fail", Now)
              IN  /\ r.err = ret'.err
                  /\ r.obs = obs'
                  /\ obs'.ResourceExists => r.cr.atProvider = cr'.atProvider]_vars

\* Observe found the resource of a record that an earlier pass had left
\* Available, with an ObservedState.
C24_Witness ==
    /\ invoked = <<"Observe">> /\ cr.kind = kind
    /\ ret.op = "Observe" /\ ret.err = NoErr
    /\ obs.reported /\ obs.ResourceExists /\ ~obs.ResourceUpToDate
    /\ cr.ready = Condition("Available", 0)
    /\ cr.atProvider = generateObservation(kind, remote[1])

\* C25: the readiness condition follows the operation performed on a record
\* of the handler's kind: Available after every Observe that reports
\* exists=true, up to date or not; Creating once Create was invoked and
\* Deleting once Delete was invoked, whatever their calls answer; Deleting
\* whenever Update of the InitBundle kind issues its revoke call; and as it
\* was after an Observe that fails or reports exists=false.
C25_ConditionFollowsOperation ==
    [][(Len(invoked') = Len(invoked) + 1 /\ cr.kind = kind) =>
          /\ (Called("Observe") /\ obs'.reported /\ obs'.ResourceExists) =>
                 (cr'.ready.reason = "Available" /\ ret'.err = NoErr)
          /\ (Called("Observe") /\ ~(obs'.reported /\ obs'.ResourceExists)) =>
                 cr'.ready = cr.ready
          /\ Called("Create") => cr'.ready.reason = "Creating"
          /\ Called("Delete") => cr'.ready.reason = "Deleting"
          /\ (Called("Update") /\ kind = "InitBundle"
                /\ \E i \in 1..Len(calls') : calls'[i].rpc = "RevokeInitBundle") =>
                 cr'.ready.reason = "Deleting"]_vars

\* Observe found the bundle and made the record Available; the Update that
\* followed revoked the bundle and left the record Deleting.
C25_Witness ==
    /\ kind = "InitBundle" /\ cr.kind = "InitBundle"
    /\ invoked = <<"Observe", "Update">>
    /\ obs.reported /\ obs.ResourceExists
    /\ calls # << >> /\ calls[1].rpc = "RevokeInitBundle"
    /\ cr.ready.reason = "Deleting" /\ cr.ready.at > 0
    /\ remote = << >>

\* Observe has just reported the resource as existing and up to date.
Converged == pc = "observed" /\ obs.ResourceExists /\ obs.ResourceUpToDate

\* The pass under way has invoked no Create, Update or Delete.
Quiet == \A i \in 1..Len(invoked) : invoked[i] = "Observe"

CreatedForRecord ==
    {i \in 1..Len(remote) :
        IF kind = "Cluster" THEN remote[i].Other = "" ELSE ~remote[i].CreatedBy.isNil}

\* C27: whatever passes have run for the record, a pass whose Create
\* returned an error after the remote service had created the resource
\* included, the remote collection holds at most one resource created for
\* the record.
C27_NoDuplicates == Cardinality(CreatedForRecord) <= 1

\* C28: in every pass in which the driver is about to invoke Update of the
\* InitBundle kind (the pass's Observe reported exists=true and
\* upToDate=false, and nobody asked for the record's deletion), the
\* readiness condition of the record is Available, as Observe set it: never
\* Creating or Deleting, so that Update does not wait.
C28_UpdateStartsAvailable ==
    (kind = "InitBundle" /\ pc = "observed" /\ driverNext(cr, obs) = "Update") =>
        /\ cr.ready.reason = "Available"
        /\ cr.ready # Condition("Creating", Now)
        /\ cr.ready # Condition("Deleting", Now)

\* The pass before created the bundle, under another name than asked, and
\* left the record Creating; this pass's Observe found the bundle, not up to
\* date, and the driver is about to invoke Update.
C28_Witness ==
    /\ kind = "InitBundle" /\ pc = "observed"
    /\ passes >= 1
    /\ lastAct = [op |-> "Create", err |-> NoErr]
    /\ obs.reported /\ obs.ResourceExists /\ ~obs.ResourceUpToDate
    /\ driverNext(cr, obs) = "Update"
    /\ cr.ready.reason = "Available"

\* The list call of the step under way succeeded.
Refetched ==
    \E i \in Issued : calls'[i].rpc = "GetClusters" /\ calls'[i].err = NoErr

\* C29: Update of the Cluster kind fetches the collection again before it
\* replaces.  When no entry is named as the record any more, it issues no
\* replace call, leaves the collection, the ObservedState and the external
\* name as they were and returns success.  When the replace succeeds, the
\* entry replaced keeps its identifier, the ObservedState is the projection
\* of the entry as replaced and the external name is its name, so that the
\* Observe of the next pass finds an entry under the external name, renamed
\* or not.
C29_UpdateRefetches ==
    [][(pc = "observed" /\ kind = "Cluster" /\ ret'.op = "Update") =>
          /\ \E i \in Issued : calls'[i].rpc = "GetClusters"
          /\ (Refetched /\ Matches = {}) =>
                 /\ \A i \in Issued : calls'[i].rpc # "PutCluster"
                 /\ remote' = remote
                 /\ cr' = cr
                 /\ ret'.err = NoErr
          /\ (Refetched /\ Matches # {} /\ ret'.err = NoErr) =>
                 LET m == CHOOSE i \in Matches : \A j \in Matches : i <= j
                 IN  /\ \E i \in Issued : calls'[i].rpc = "PutCluster"
                     /\ remote'[m].Id = remote[m].Id
                     /\ cr'.atProvider = generateObservation("Cluster", remote'[m])
                     /\ cr'.externalName = remote'[m].Name
                     /\ firstMatch(remote', cr'.externalName) # 0]_vars

\* The resource vanished between Observe and Update: Update fetched an
\* empty collection and returned success without a replace call.
C29_Witness ==
    /\ kind = "Cluster" /\ pc = "acted"
    /\ ret.op = "Update" /\ ret.err = NoErr
    /\ obs.reported /\ obs.ResourceExists /\ ~obs.ResourceUpToDate
    /\ remote = << >>
    /\ CallsOf({"PutCluster"}) = {}
    /\ cr.atProvider.ID # "" /\ cr.externalName # ""

====
